---- MODULE Spec2Model ----
(***************************************************************************)
(* Host-side driver of the Turing Smart Screen (turing_screen_cli.py).     *)
(*                                                                         *)
(* A byte string (bytes / bytearray) is a sequence of integers 0..255;     *)
(* Python's zero-based index k is the sequence index k + 1.  A bulk write  *)
(* is recorded in `log` by the two operands of the expression every call   *)
(* site hands to write_to_device,                                          *)
(*        encrypt_command_packet(pkt) + payload,                           *)
(* the plaintext packet and the payload.  A payload is a run-length list   *)
(* of segments (kind, n): payloads reach 1 MiB and more.                   *)
(*                                                                         *)
(* Spec is a run of main() for one command line, SpecLive the same run    *)
(* with delay running to its end once called.  SpecCall is a call of one   *)
(* of the file functions on its own.  SpecCodec applies the packet codec   *)
(* alone, build_command_packet_header and encrypt_command_packet, with     *)
(* DES-CBC computed bit by bit.  SpecTransport is write_to_device with     *)
(* read_flush, operation by operation on the two endpoints; SpecStorage    *)
(* and SpecListing are the parsers of the replies to opcodes 100 and 99;   *)
(* SpecSession is a run of main for upload followed by one for play-select.*)
(***************************************************************************)
EXTENDS Integers, Sequences, FiniteSets

VARIABLES
    command,     \* args.command
    filename,    \* args.filename / args.path, a byte string
    loop,        \* args.loop
    brightness,  \* args.value
    settings,    \* the six arguments of the save action
    storageType, \* args.type of the list-storage action
    img,         \* img.size of the image --path names: <<width, height>>
    devPresent,  \* usb.core.find found the device
    fileExists,  \* the local file named by --path exists
    h264Cached,  \* <path>.h264 already exists beside the MP4
    fileSize,    \* size in bytes of the local file that is streamed
    clock,       \* milliseconds since local midnight
    pc,          \* position of the single thread of control
    log,         \* the bulk writes issued so far, in order
    offset,      \* f.tell() of the file being streamed
    fileOpen,    \* number of open streaming file handles
    probes,      \* opcode-122 probes written so far
    passes,      \* passes over the file that send_video has finished
    response,    \* the reply returned last, of the commands whose reply is followed
    tries,       \* index i of the loop of send_list_storage_command
    receive_offset, \* bytes of the listing received so far
    total_size,  \* len(_encode_png(img)) in send_image, 0 before it is known
    layers,      \* the layers send_image has built and sent, in order
    interrupts,  \* KeyboardInterrupts delivered so far
    intAt,       \* Len(log) when the streaming loop caught an interrupt, else -1
    intPc,       \* pc when the streaming loop caught an interrupt, else ""
    inLoop,      \* send_video has entered its streaming loop
    result,      \* return value of the action's function
    exitCode,    \* process exit status, -1 while running
    command_id,  \* the command id handed to build_command_packet_header
    cmd_packet,  \* the plaintext packet built from command_id
    ciphertext,  \* encrypt_with_des(des_key, cmd_packet)
    envelope,    \* encrypt_command_packet(cmd_packet)
    raised,      \* class of the exception that reached main's handlers, "" if none
    usb,         \* the endpoint operations of write_to_device, in order
    attempt,     \* iterations of read_flush's loop begun in the current call
    returned,    \* what the calls of write_to_device returned, in order
    storage,     \* the reply to opcode 100 that send_refresh_storage_command parses
    report,      \* the three sizes send_refresh_storage_command logs
    receive_buffer, \* receive_buffer[:receive_offset] of send_list_storage_command
    names,       \* the file names send_list_storage_command logs, in order
    plaintext    \* the envelope's ciphertext decrypted by the device

vars == <<command, filename, loop, brightness, settings, storageType, img,
          devPresent, fileExists, h264Cached,
          fileSize, clock, pc, log, offset, fileOpen, probes, passes, response,
          tries, receive_offset, total_size, layers,
          interrupts, intAt, intPc, inLoop, result, exitCode, command_id, cmd_packet, ciphertext,
          envelope, raised, usb, attempt, returned, storage, report, receive_buffer, names,
          plaintext>>

----------------------------------------------------------------------------
(* Bounds of the model *)

MaxChunks == 2       \* streamed files hold at most this many full chunks
MaxProbes == 2       \* opcode-122 probes in one run
MaxInterrupts == 2   \* KeyboardInterrupts delivered in one run
MaxPasses == 2       \* passes over the file explored with --loop
MaxLayers == 3       \* the source image encodes to at most this many chunk budgets

----------------------------------------------------------------------------
(* Program constants *)

PACKET_SIZE == 500
ENVELOPE_SIZE == 512
TRAILER_POS == 510
TRAILER_0 == 161
TRAILER_1 == 26
MAGIC_0 == 26
MAGIC_1 == 109
CHUNK_SIZE == 1048576
HEADER_SIZE == 512
VIDEO_CHUNK == 202752
CLEAR_PNG_SIZE == 3703
VIDEO_BRIGHTNESS == 32
VIDEO_FRAME_RATE == 25
DELAY_RST == 2
BUSY_MAX == 3
SYNC_SLEEP_MS == 200
CHUNK_SLEEP_MS == 30
DELAY_SLEEP_MS == 50
DAY_MS == 86400000
REPLY_MAX == 512
RECEIVE_BUFFER == 10240
max_tries == 20
max_chunk_bytes == 524288

des_key == <<115, 108, 118, 51, 116, 117, 122, 120>>  \* b'slv3tuzx'

IMG_DIR == <<47, 116, 109, 112, 47, 115, 100, 99, 97, 114, 100, 47, 109, 109, 99,
             98, 108, 107, 48, 112, 49, 47, 105, 109, 103, 47>>
VIDEO_DIR == <<47, 116, 109, 112, 47, 115, 100, 99, 97, 114, 100, 47, 109, 109, 99,
               98, 108, 107, 48, 112, 49, 47, 118, 105, 100, 101, 111, 47>>
EXT_PNG == <<46, 112, 110, 103>>
EXT_H264 == <<46, 104, 50, 54, 52>>
EXT_MP4 == <<46, 109, 112, 52>>

----------------------------------------------------------------------------
(* Python byte-string primitives *)

Min(a, b) == IF a < b THEN a ELSE b
Max(a, b) == IF a > b THEN a ELSE b

\* bytearray(n)
Zeros(n) == [i \in 1..n |-> 0]

\* b[lo:hi]
Slice(b, lo, hi) ==
    LET l == Min(lo, Len(b))
        h == Max(l, Min(hi, Len(b)))
    IN  SubSeq(b, l + 1, h)

\* b[k] = v
SetByte(b, k, v) == [b EXCEPT ![k + 1] = v]

\* b[lo:hi] = data   (a bytearray grows or shrinks when the lengths differ)
SliceAssign(b, lo, hi, data) ==
    LET l == Min(lo, Len(b))
        h == Max(l, Min(hi, Len(b)))
    IN  SubSeq(b, 1, l) \o data \o SubSeq(b, h + 1, Len(b))

\* (n >> 24) & 0xFF, (n >> 16) & 0xFF, (n >> 8) & 0xFF, n & 0xFF
BE32(n) == << (n \div 16777216) % 256, (n \div 65536) % 256, (n \div 256) % 256, n % 256 >>

\* struct.pack('<I', n)
LE32(n) == << n % 256, (n \div 256) % 256, (n \div 65536) % 256, (n \div 16777216) % 256 >>

\* int.from_bytes(b, 'big') of a 4-byte string; -1 stands for the values
\* from 2^31 on, which 32-bit integers do not hold
FromBE32(b) ==
    IF b[1] >= 128 THEN -1 ELSE ((b[1] * 256 + b[2]) * 256 + b[3]) * 256 + b[4]

\* int.from_bytes(b, 'little') of a 4-byte string; -1 as for FromBE32
FromLE32(b) ==
    IF b[4] >= 128 THEN -1 ELSE ((b[4] * 256 + b[3]) * 256 + b[2]) * 256 + b[1]

\* bytes.lower() on one byte
LowerByte(c) == IF c >= 65 /\ c <= 90 THEN c + 32 ELSE c

Lower(s) == [i \in 1..Len(s) |-> LowerByte(s[i])]

\* str.rfind(c): the last zero-based index of c, or -1
RFind(s, c) ==
    LET hits == {i \in 1..Len(s) : s[i] = c}
    IN  IF hits = {} THEN -1 ELSE (CHOOSE i \in hits : \A j \in hits : j <= i) - 1

\* PurePath.name: the final path component
BaseName(s) == SubSeq(s, RFind(s, 47) + 2, Len(s))

\* PurePath.suffix.lower(): the last dot of the final component and what
\* follows it, unless the dot leads or ends the component
Suffix(s) ==
    LET name == BaseName(s)
        i    == RFind(name, 46)
    IN  IF 0 < i /\ i < Len(name) - 1 THEN Lower(SubSeq(name, i + 1, Len(name))) ELSE << >>

----------------------------------------------------------------------------
(* Packet codec *)

\* Mutant: the timestamp is packed big-endian
build_command_packet_header_big_endian(a0, timestamp) ==
    LET packet == Zeros(PACKET_SIZE)
        p0     == SetByte(packet, 0, a0)
        p2     == SetByte(p0, 2, MAGIC_0)
        p3     == SetByte(p2, 3, MAGIC_1)
    IN  SliceAssign(p3, 4, 8, BE32(timestamp))

\* build_command_packet_header(a0), read at `timestamp` ms since local midnight
build_command_packet_header(a0, timestamp) ==
    LET packet == Zeros(PACKET_SIZE)
        p0     == SetByte(packet, 0, a0)
        p2     == SetByte(p0, 2, MAGIC_0)
        p3     == SetByte(p2, 3, MAGIC_1)
    IN  SliceAssign(p3, 4, 8, LE32(timestamp))

padded_len(n) == ((n + 7) \div 8) * 8

\* bytes.ljust(width, b'\x00')
ljust(data, width) == data \o Zeros(Max(0, width - Len(data)))

\* A cell of a written envelope: a plain byte 0..255, or CT, a byte of
\* DES ciphertext.
CT == -1

\* The ciphertext of `data` as the envelope layout sees it: CBC keeps the
\* length of the padded input.
cipher_cells(data) == [i \in 1..padded_len(Len(data)) |-> CT]

----------------------------------------------------------------------------
(* DES (FIPS 46-3) in CBC mode, as Crypto.Cipher.DES computes it.  A block *)
(* is a sequence of 64 bits, bit 1 the most significant bit of byte 0.     *)

IP == <<58, 50, 42, 34, 26, 18, 10, 2, 60, 52, 44, 36, 28, 20, 12, 4,
      62, 54, 46, 38, 30, 22, 14, 6, 64, 56, 48, 40, 32, 24, 16, 8,
      57, 49, 41, 33, 25, 17, 9, 1, 59, 51, 43, 35, 27, 19, 11, 3,
      61, 53, 45, 37, 29, 21, 13, 5, 63, 55, 47, 39, 31, 23, 15, 7>>

FP == <<40, 8, 48, 16, 56, 24, 64, 32, 39, 7, 47, 15, 55, 23, 63, 31,
      38, 6, 46, 14, 54, 22, 62, 30, 37, 5, 45, 13, 53, 21, 61, 29,
      36, 4, 44, 12, 52, 20, 60, 28, 35, 3, 43, 11, 51, 19, 59, 27,
      34, 2, 42, 10, 50, 18, 58, 26, 33, 1, 41, 9, 49, 17, 57, 25>>

E_TABLE == <<32, 1, 2, 3, 4, 5, 4, 5, 6, 7, 8, 9,
           8, 9, 10, 11, 12, 13, 12, 13, 14, 15, 16, 17,
           16, 17, 18, 19, 20, 21, 20, 21, 22, 23, 24, 25,
           24, 25, 26, 27, 28, 29, 28, 29, 30, 31, 32, 1>>

P_TABLE == <<16, 7, 20, 21, 29, 12, 28, 17, 1, 15, 23, 26, 5, 18, 31, 10,
           2, 8, 24, 14, 32, 27, 3, 9, 19, 13, 30, 6, 22, 11, 4, 25>>

PC1 == <<57, 49, 41, 33, 25, 17, 9, 1, 58, 50, 42, 34, 26, 18,
       10, 2, 59, 51, 43, 35, 27, 19, 11, 3, 60, 52, 44, 36,
       63, 55, 47, 39, 31, 23, 15, 7, 62, 54, 46, 38, 30, 22,
       14, 6, 61, 53, 45, 37, 29, 21, 13, 5, 28, 20, 12, 4>>

PC2 == <<14, 17, 11, 24, 1, 5, 3, 28, 15, 6, 21, 10,
       23, 19, 12, 4, 26, 8, 16, 7, 27, 20, 13, 2,
       41, 52, 31, 37, 47, 55, 30, 40, 51, 45, 33, 48,
       44, 49, 39, 56, 34, 53, 46, 42, 50, 36, 29, 32>>

\* left rotations of the key halves after rounds 1..16: the running sums of
\* the per-round shifts 1, 1, 2, 2, 2, 2, 2, 2, 1, 2, 2, 2, 2, 2, 2, 1
ROTATIONS == <<1, 2, 4, 6, 8, 10, 12, 14, 15, 17, 19, 21, 23, 25, 27, 28>>

SBOX ==
    << <<14, 4, 13, 1, 2, 15, 11, 8, 3, 10, 6, 12, 5, 9, 0, 7,
       0, 15, 7, 4, 14, 2, 13, 1, 10, 6, 12, 11, 9, 5, 3, 8,
       4, 1, 14, 8, 13, 6, 2, 11, 15, 12, 9, 7, 3, 10, 5, 0,
       15, 12, 8, 2, 4, 9, 1, 7, 5, 11, 3, 14, 10, 0, 6, 13>>,
       <<15, 1, 8, 14, 6, 11, 3, 4, 9, 7, 2, 13, 12, 0, 5, 10,
       3, 13, 4, 7, 15, 2, 8, 14, 12, 0, 1, 10, 6, 9, 11, 5,
       0, 14, 7, 11, 10, 4, 13, 1, 5, 8, 12, 6, 9, 3, 2, 15,
       13, 8, 10, 1, 3, 15, 4, 2, 11, 6, 7, 12, 0, 5, 14, 9>>,
       <<10, 0, 9, 14, 6, 3, 15, 5, 1, 13, 12, 7, 11, 4, 2, 8,
       13, 7, 0, 9, 3, 4, 6, 10, 2, 8, 5, 14, 12, 11, 15, 1,
       13, 6, 4, 9, 8, 15, 3, 0, 11, 1, 2, 12, 5, 10, 14, 7,
       1, 10, 13, 0, 6, 9, 8, 7, 4, 15, 14, 3, 11, 5, 2, 12>>,
       <<7, 13, 14, 3, 0, 6, 9, 10, 1, 2, 8, 5, 11, 12, 4, 15,
       13, 8, 11, 5, 6, 15, 0, 3, 4, 7, 2, 12, 1, 10, 14, 9,
       10, 6, 9, 0, 12, 11, 7, 13, 15, 1, 3, 14, 5, 2, 8, 4,
       3, 15, 0, 6, 10, 1, 13, 8, 9, 4, 5, 11, 12, 7, 2, 14>>,
       <<2, 12, 4, 1, 7, 10, 11, 6, 8, 5, 3, 15, 13, 0, 14, 9,
       14, 11, 2, 12, 4, 7, 13, 1, 5, 0, 15, 10, 3, 9, 8, 6,
       4, 2, 1, 11, 10, 13, 7, 8, 15, 9, 12, 5, 6, 3, 0, 14,
       11, 8, 12, 7, 1, 14, 2, 13, 6, 15, 0, 9, 10, 4, 5, 3>>,
       <<12, 1, 10, 15, 9, 2, 6, 8, 0, 13, 3, 4, 14, 7, 5, 11,
       10, 15, 4, 2, 7, 12, 9, 5, 6, 1, 13, 14, 0, 11, 3, 8,
       9, 14, 15, 5, 2, 8, 12, 3, 7, 0, 4, 10, 1, 13, 11, 6,
       4, 3, 2, 12, 9, 5, 15, 10, 11, 14, 1, 7, 6, 0, 8, 13>>,
       <<4, 11, 2, 14, 15, 0, 8, 13, 3, 12, 9, 7, 5, 10, 6, 1,
       13, 0, 11, 7, 4, 9, 1, 10, 14, 3, 5, 12, 2, 15, 8, 6,
       1, 4, 11, 13, 12, 3, 7, 14, 10, 15, 6, 8, 0, 5, 9, 2,
       6, 11, 13, 8, 1, 4, 10, 7, 9, 5, 0, 15, 14, 2, 3, 12>>,
       <<13, 2, 8, 4, 6, 15, 11, 1, 10, 9, 3, 14, 5, 0, 12, 7,
       1, 15, 13, 8, 10, 3, 7, 4, 12, 5, 6, 11, 0, 14, 9, 2,
       7, 11, 4, 1, 9, 12, 14, 2, 0, 6, 10, 13, 15, 3, 5, 8,
       2, 1, 14, 7, 4, 10, 8, 13, 15, 12, 9, 0, 3, 5, 6, 11>> >>

\* a function on 1..n as the tuple of its values
Tup(f) == f \o << >>

POW2 == <<128, 64, 32, 16, 8, 4, 2, 1>>

\* the bits of a byte string, most significant first
Bits(bs) == Tup([i \in 1..(8 * Len(bs)) |-> (bs[((i - 1) \div 8) + 1] \div POW2[((i - 1) % 8) + 1]) % 2])

\* the byte string of a bit string
Bytes(bits) ==
    Tup([j \in 1..(Len(bits) \div 8) |->
            LET o == 8 * (j - 1)
            IN  128 * bits[o + 1] + 64 * bits[o + 2] + 32 * bits[o + 3] + 16 * bits[o + 4]
                + 8 * bits[o + 5] + 4 * bits[o + 6] + 2 * bits[o + 7] + bits[o + 8]])

Permute(bits, table) == Tup([i \in 1..Len(table) |-> bits[table[i]]])

XorBits(a, b) == Tup([i \in 1..Len(a) |-> (a[i] + b[i]) % 2])

RotL(half, s) == Tup([i \in 1..Len(half) |-> half[((i - 1 + s) % Len(half)) + 1]])

\* the 16 round keys of a DES key: the halves C_0, D_0 rotated left by the
\* running sum of the per-round shifts, then PC2
SubKeys(key) ==
    LET cd == Permute(Bits(key), PC1)
        c0 == SubSeq(cd, 1, 28)
        d0 == SubSeq(cd, 29, 56)
    IN  Tup([n \in 1..16 |-> Permute(RotL(c0, ROTATIONS[n]) \o RotL(d0, ROTATIONS[n]), PC2)])

\* the four-bit value of S-box j + 1 on the j-th group of six bits of x
SValue(x, j) ==
    LET o   == 6 * j
        row == 2 * x[o + 1] + x[o + 6]
        col == 8 * x[o + 2] + 4 * x[o + 3] + 2 * x[o + 4] + x[o + 5]
    IN  SBOX[j + 1][16 * row + col + 1]

\* bit i of the 32 bits that leave the eight S-boxes
SBit(x, i) == (SValue(x, (i - 1) \div 4) \div POW2[((i - 1) % 4) + 5]) % 2

\* the cipher function f(R, K) = P(S(E(R) xor K))
Feistel(r, k) ==
    LET x == Tup([i \in 1..48 |-> (r[E_TABLE[i]] + k[i]) % 2])
    IN  Tup([i \in 1..32 |-> SBit(x, P_TABLE[i])])

\* one round: <<L, R>> becomes <<R, L xor f(R, K)>>
Round(lr, k) == << lr[2], XorBits(lr[1], Feistel(lr[2], k)) >>

\* the sixteen rounds
Rounds(lr, ks) ==
    Round(Round(Round(Round(Round(Round(Round(Round(
    Round(Round(Round(Round(Round(Round(Round(Round(lr,
        ks[1]), ks[2]), ks[3]), ks[4]), ks[5]), ks[6]), ks[7]), ks[8]),
        ks[9]), ks[10]), ks[11]), ks[12]), ks[13]), ks[14]), ks[15]), ks[16])

\* one block through DES under the round keys ks, bits in and bits out;
\* the halves are swapped before the final permutation
DESBits(ks, bits) ==
    LET b  == Permute(bits, IP)
        lr == Rounds(<< SubSeq(b, 1, 32), SubSeq(b, 33, 64) >>, ks)
    IN  Permute(lr[2] \o lr[1], FP)

\* CBC encryption of whole blocks: each block is XORed with the previous
\* ciphertext block (the IV for the first) and encrypted.  The blocks are
\* taken half by half, the second half chained to the end of the first.
RECURSIVE CbcEncrypt(_, _, _)
CbcEncrypt(ks, iv, data) ==
    IF data = << >> THEN << >>
    ELSE IF Len(data) = 8 THEN Bytes(DESBits(ks, XorBits(Bits(data), Bits(iv))))
    ELSE LET half == 8 * ((Len(data) \div 8) \div 2)
             left == CbcEncrypt(ks, iv, SubSeq(data, 1, half))
         IN  left \o CbcEncrypt(ks, SubSeq(left, half - 7, half), SubSeq(data, half + 1, Len(data)))

\* the round keys of the program's one key
des_round_keys == SubKeys(des_key)

\* DES.new(key, DES.MODE_CBC, iv).encrypt(data), data a whole number of blocks
DES_CBC_encrypt(key, iv, data) ==
    CbcEncrypt(IF key = des_key THEN des_round_keys ELSE SubKeys(key), iv, data)

\* Mutant: the IV is eight zero bytes, not the key
encrypt_with_des_zero_iv(key, data) ==
    DES_CBC_encrypt(key, Zeros(8), ljust(data, padded_len(Len(data))))

\* encrypt_with_des(key, data): the key is also the IV
encrypt_with_des(key, data) == DES_CBC_encrypt(key, key, ljust(data, padded_len(Len(data))))

----------------------------------------------------------------------------
(* The envelope *)

\* Mutant: the trailer follows the ciphertext directly
frame_packet_trailer_follows(encrypted) ==
    LET final_packet == SliceAssign(Zeros(ENVELOPE_SIZE), 0, Len(encrypted), encrypted)
    IN  SetByte(SetByte(final_packet, Len(encrypted), TRAILER_0), Len(encrypted) + 1, TRAILER_1)

\* encrypt_command_packet, from the ciphertext on: the 512-byte frame and
\* its trailer
frame_packet(encrypted) ==
    LET final_packet == SliceAssign(Zeros(ENVELOPE_SIZE), 0, Len(encrypted), encrypted)
    IN  SetByte(SetByte(final_packet, TRAILER_POS, TRAILER_0), TRAILER_POS + 1, TRAILER_1)

\* The layout of encrypt_command_packet(data): which cells are ciphertext,
\* which are plain, and how many there are.
envelope_layout(data) == frame_packet(cipher_cells(data))

\* The header fields of the commands

\* cmd_packet[8] = value
byte_packet(op, value, ts) == SetByte(build_command_packet_header(op, ts), 8, value)

\* Mutant: the length of the path is packed little-endian
path_packet_little_endian(op, path, ts) ==
    LET length == Len(path)
        p8     == SliceAssign(build_command_packet_header(op, ts), 8, 12, LE32(length))
        p12    == SliceAssign(p8, 12, 16, <<0, 0, 0, 0>>)
    IN  SliceAssign(p12, 16, 16 + length, path)

\* length at 8..12 big-endian, zero at 12..16, the path from 16 on
path_packet(op, path, ts) ==
    LET length == Len(path)
        p8     == SliceAssign(build_command_packet_header(op, ts), 8, 12, BE32(length))
        p12    == SliceAssign(p8, 12, 16, <<0, 0, 0, 0>>)
    IN  SliceAssign(p12, 16, 16 + length, path)

\* the size of the payload that follows at 8..12 big-endian
size_packet(op, size, ts) ==
    SliceAssign(build_command_packet_header(op, ts), 8, 12, BE32(size))

----------------------------------------------------------------------------
(* Payloads *)

NoPayload == << >>
\* n bytes: those of the streamed file from offset off on ("file"), zero
\* bytes ("zero"), or the bytes of the built-in PNG ("clear_png")
Seg(kind, off, n) == [kind |-> kind, off |-> off, n |-> n]

RECURSIVE PayloadLen(_)
PayloadLen(p) == IF p = << >> THEN 0 ELSE Head(p).n + PayloadLen(Tail(p))

\* the PNG literal of clear_image
clear_png == << Seg("clear_png", 0, CLEAR_PNG_SIZE) >>

----------------------------------------------------------------------------
(* Device replies: None, or bytes of some length whose byte 8 is b8 *)

None == [len |-> -1, b8 |-> 0]
B8Values == {DELAY_RST, BUSY_MAX, BUSY_MAX + 1}
Replies == {None, [len |-> 0, b8 |-> 0], [len |-> 8, b8 |-> 0]}
           \cup {[len |-> REPLY_MAX, b8 |-> b] : b \in B8Values}

\* Mutant: `if response is None`, an empty reply counts as a reply
Truthy_not_none(r) == r # None

\* `if response:` / `if not response:` on bytes-or-None
Truthy(r) == r.len > 0

\* the replies to a command whose caller drops them: null, empty, short
\* and full
DroppedReplies == {None, [len |-> 0, b8 |-> 0], [len |-> 8, b8 |-> 0],
                   [len |-> REPLY_MAX, b8 |-> DELAY_RST]}

\* write_to_device returns a reply that the caller does not read
Ignored == \E r \in DroppedReplies : response' = r

----------------------------------------------------------------------------
(* Inputs *)

Name(stemLen, ext) == [i \in 1..stemLen |-> 97] \o ext

Filenames ==
    { Name(1, EXT_H264), Name(1, EXT_PNG), Name(1, EXT_MP4), Name(1, <<46, 116, 120, 116>>),
      <<65, 46, 72, 50, 54, 52>>,      \* A.H264
      EXT_PNG,                         \* .png, a name with no suffix
      Name(465, EXT_H264),             \* the packet grows to 514 bytes
      Name(500, EXT_PNG) }             \* the packet grows to 546 bytes

StartClocks == {0, 16909060, DAY_MS - 100}

\* sizes of the streamed file around the multiples of the chunk size c
FileSizes(c) == {n \in {k * c + d : k \in 0..MaxChunks, d \in {0, 1, c - 1}} : n <= MaxChunks * c}

\* --path of the upload action: names a file system can hold
UploadNames == { Name(1, EXT_PNG), Name(1, EXT_MP4), Name(1, <<46, 116, 120, 116>>),
                 <<65, 46, 80, 78, 71>> }   \* A.PNG

\* the six arguments of save, inside the choices argparse accepts
SaveSettings == {<<102, 0, 0, 0, 0, 0>>, <<0, 2, 0, 2, 255, 1>>, <<80, 1, 0, 0, 30, 0>>}

\* img.size of the source image of send-image
ImageSizes == {<<480, 1920>>, <<480, 1000>>, <<640, 1919>>}

\* lengths of PNG encodings around the multiples of the chunk budget
EncodedSizes(budget) ==
    {n \in {k * budget + d : k \in 0..MaxLayers, d \in {0, 1, budget - 1}} :
        0 < n /\ n <= MaxLayers * budget}

Commands == {"sync", "restart", "refresh-storage", "brightness", "save", "list-storage",
             "clear-image", "send-image", "send-video", "upload", "delete", "stop-play",
             "play-select"}

----------------------------------------------------------------------------
(* The run: main() after argument parsing *)

codec == <<command_id, cmd_packet, ciphertext, envelope>>
inputs == <<command, filename, loop, brightness, settings, storageType, img,
            devPresent, fileExists, fileSize, codec>>
stream == <<offset, fileOpen, probes, passes, inLoop, h264Cached>>
listing == <<tries, receive_offset>>
image == <<total_size, layers>>
caught == <<intAt, intPc>>
transport == <<usb, attempt, returned>>
parsers == <<storage, report, receive_buffer, names>>
\* what a run of main leaves alone: the variables of the functions that
\* are specified on their own
aside == <<transport, parsers, plaintext>>

\* the values of `aside` where none of these functions runs
AsideInit ==
    /\ usb = << >>
    /\ attempt = 0
    /\ returned = << >>
    /\ storage = << >>
    /\ report = << >>
    /\ receive_buffer = << >>
    /\ names = << >>
    /\ plaintext = << >>

NeedsFile(c) == c \in {"delete", "play-select"}
Streams(c) == c \in {"send-video", "upload"}

Init ==
    /\ command \in Commands
    /\ filename \in (IF NeedsFile(command) THEN Filenames
                     ELSE IF command = "send-video" THEN {Name(1, EXT_MP4)}
                     ELSE IF command = "upload" THEN UploadNames ELSE {<< >>})
    /\ loop \in (IF command = "send-video" THEN BOOLEAN ELSE {FALSE})
    /\ brightness \in (IF command = "brightness" THEN {0, 80, 102} ELSE {0})
    /\ settings \in (IF command = "save" THEN SaveSettings ELSE {<<0, 0, 0, 0, 0, 0>>})
    /\ storageType \in (IF command = "list-storage" THEN {"image", "video"} ELSE {""})
    /\ img \in (IF command = "send-image" THEN ImageSizes ELSE {<<0, 0>>})
    /\ devPresent \in BOOLEAN
    /\ fileExists \in (IF Streams(command) \/ command = "send-image" THEN BOOLEAN ELSE {FALSE})
    /\ h264Cached \in (IF Streams(command) THEN BOOLEAN ELSE {FALSE})
    /\ fileSize \in (IF command = "send-video" THEN FileSizes(VIDEO_CHUNK)
                     ELSE IF command = "upload" THEN FileSizes(CHUNK_SIZE) ELSE {0})
    /\ clock \in (IF Streams(command) \/ command \in {"send-image", "list-storage"}
                  THEN {16909060} ELSE StartClocks)
    /\ pc = "find_usb_device"
    /\ log = << >>
    /\ offset = 0
    /\ fileOpen = 0
    /\ probes = 0
    /\ passes = 0
    /\ response = None
    /\ tries = 0
    /\ receive_offset = 0
    /\ total_size = 0
    /\ layers = << >>
    /\ interrupts = 0
    /\ intAt = -1
    /\ intPc = ""
    /\ inLoop = FALSE
    /\ result = "none"
    /\ exitCode = -1
    /\ raised = ""
    /\ AsideInit
    /\ command_id = 0
    /\ cmd_packet = << >>
    /\ ciphertext = << >>
    /\ envelope = << >>

\* write_to_device(dev, encrypt_command_packet(pkt) + payload): the bulk
\* write.  What it returns, None or the reply, is an r \in Replies where
\* the caller looks at it.
write_to_device(pkt, payload) == log' = Append(log, [pkt |-> pkt, payload |-> payload])

\* time.sleep(ms / 1000); the timestamp restarts at local midnight
sleep(ms) == clock' = (clock + ms) % DAY_MS

\* sys.exit(code), or main() running off its end (code 0)
Exit(code) == pc' = "exit" /\ exitCode' = code /\ raised' = raised

\* Mutant: main's `except KeyboardInterrupt` exits with 1 as well
main_except_interrupt_fatal(exc) == 1

\* the exit code of main's handlers: `except ValueError` 1, `except
\* KeyboardInterrupt` 0, `except Exception` 1
main_except(exc) ==
    IF exc = "ValueError" THEN 1
    ELSE IF exc = "KeyboardInterrupt" THEN 0
    ELSE 1

\* an exception of class exc leaves the action and reaches main's handlers
Raise(exc) == pc' = "exit" /\ raised' = exc /\ exitCode' = main_except(exc)

\* the device path play_file and delete_file derive from the extension
device_path(name) ==
    IF Suffix(name) = EXT_PNG THEN IMG_DIR \o name ELSE VIDEO_DIR \o name

\* Mutant: .mp4 is taken for a name play_file and delete_file accept
Supported_with_mp4(name) == Suffix(name) \in {EXT_PNG, EXT_H264, EXT_MP4}

\* `ext == ".png"` / `elif ext == ".h264"` of play_file and delete_file
Supported(name) == Suffix(name) \in {EXT_PNG, EXT_H264}

\* Mutant: the restart action does not call delay_sync
find_usb_device_restart_unsynced ==
    /\ pc = "find_usb_device"
    /\ IF devPresent
         THEN /\ pc' = (IF command = "sync" THEN "sync"
                        ELSE IF command = "restart" THEN "restart" ELSE "delay_sync")
              /\ UNCHANGED <<exitCode, raised>>
         ELSE Raise("ValueError")
    /\ UNCHANGED <<inputs, aside, response, listing, image, stream, clock, log, interrupts, caught, result>>

\* dev = find_usb_device(), a ValueError when no device is found; then the
\* branch of args.command: send_sync_command for sync, delay_sync first
\* for every other action
find_usb_device ==
    /\ pc = "find_usb_device"
    /\ IF devPresent
         THEN pc' = (IF command = "sync" THEN "sync" ELSE "delay_sync") /\ UNCHANGED <<exitCode, raised>>
         ELSE Raise("ValueError")
    /\ UNCHANGED <<inputs, aside, response, listing, image, stream, clock, log, interrupts, caught, result>>

\* the sync action: send_sync_command alone
send_sync_command ==
    /\ pc = "sync"
    /\ write_to_device(build_command_packet_header(10, clock), NoPayload)
    /\ Exit(0)
    /\ UNCHANGED <<inputs, aside, response, listing, image, stream, clock, interrupts, caught, result>>

\* Mutant: the upload action goes to upload_file without
\* send_refresh_storage_command
AfterSync_upload_unqueried(c) ==
    CASE c = "brightness"  -> "brightness"
      [] c = "restart"     -> "restart"
      [] c = "refresh-storage" -> "up_refresh"
      [] c = "save"        -> "save"
      [] c = "list-storage" -> "list"
      [] c = "clear-image" -> "clear_image"
      [] c = "send-image"  -> "send_image"
      [] c = "stop-play"   -> "ps_stop_111"
      [] c = "delete"      -> "delete"
      [] c = "play-select" -> "ps_stop_111"
      [] c = "send-video"  -> "sv_extract"
      [] c = "upload"      -> "up_check"
      [] OTHER             -> "exit"

\* the branch of main that args.command selects, after its delay_sync
AfterSync(c) ==
    CASE c = "brightness"  -> "brightness"
      [] c = "restart"     -> "restart"
      [] c = "refresh-storage" -> "up_refresh"
      [] c = "save"        -> "save"
      [] c = "list-storage" -> "list"
      [] c = "clear-image" -> "clear_image"
      [] c = "send-image"  -> "send_image"
      [] c = "stop-play"   -> "ps_stop_111"
      [] c = "delete"      -> "delete"
      [] c = "play-select" -> "ps_stop_111"
      [] c = "send-video"  -> "sv_extract"
      [] c = "upload"      -> "up_refresh"
      [] OTHER             -> "exit"

\* delay_sync: opcode 10, then 200 ms of sleep; the reply is dropped, and
\* is kept in `response` where a ritual of several commands follows
delay_sync ==
    /\ pc = "delay_sync"
    /\ write_to_device(build_command_packet_header(10, clock), NoPayload)
    /\ sleep(SYNC_SLEEP_MS)
    /\ pc' = AfterSync(command)
    /\ IF command \in {"play-select", "send-video"} THEN Ignored ELSE UNCHANGED response
    /\ UNCHANGED <<inputs, aside, listing, image, stream, interrupts, caught, result, exitCode, raised>>

\* the brightness action
send_brightness_command ==
    /\ pc = "brightness"
    /\ write_to_device(byte_packet(14, brightness, clock), NoPayload)
    /\ Exit(0)
    /\ UNCHANGED <<inputs, aside, response, listing, image, stream, clock, interrupts, caught, result>>

\* the restart action: opcode 11
send_restart_device_command ==
    /\ pc = "restart"
    /\ write_to_device(build_command_packet_header(11, clock), NoPayload)
    /\ Exit(0)
    /\ UNCHANGED <<inputs, aside, response, listing, image, stream, clock, interrupts, caught, result>>

\* cmd_packet[8..13] = brightness, startup, reserved, rotation, sleep, offline
save_packet(s, ts) == SliceAssign(build_command_packet_header(125, ts), 8, 14, s)

\* the save action: opcode 125
send_save_settings_command ==
    /\ pc = "save"
    /\ write_to_device(save_packet(settings, clock), NoPayload)
    /\ Exit(0)
    /\ UNCHANGED <<inputs, aside, response, listing, image, stream, clock, interrupts, caught, result>>

\* the directory main lists for --type image / video
storage_path(type) == IF type = "image" THEN IMG_DIR ELSE VIDEO_DIR

\* Mutant: the loop takes one turn more than max_tries
more_tries_one_more(i) == i < max_tries

\* `for i in range(max_tries)`: after turn i the loop takes another
more_tries(i) == i + 1 < max_tries

\* one turn of the loop of send_list_storage_command: an opcode-99
\* transfer, whose reply is appended to receive_buffer when it is non-empty
\* and fits; the loop ends after max_tries turns, on an empty or missing
\* reply, or on a reply that does not fit
send_list_storage_command ==
    /\ pc = "list"
    /\ write_to_device(path_packet(99, storage_path(storageType), clock), NoPayload)
    /\ \E r \in Replies :
          /\ response' = r
          /\ IF Truthy(r) /\ receive_offset + r.len <= RECEIVE_BUFFER
               THEN /\ receive_offset' = receive_offset + r.len
                    /\ tries' = tries + 1
                    /\ IF more_tries(tries)
                         THEN UNCHANGED <<pc, exitCode, raised>>
                         ELSE Exit(0)
               ELSE /\ Exit(0)
                    /\ UNCHANGED listing
    /\ UNCHANGED <<inputs, aside, image, stream, clock, interrupts, caught, result>>

\* the clear-image action: clear_image, opcode 102 with the built-in PNG
clear_image ==
    /\ pc = "clear_image"
    /\ write_to_device(size_packet(102, PayloadLen(clear_png), clock), clear_png)
    /\ Exit(0)
    /\ UNCHANGED <<inputs, aside, response, listing, image, stream, clock, interrupts, caught, result>>

\* the delete action: delete_file, then _delete_command for a supported name
delete_file ==
    /\ pc = "delete"
    /\ IF Supported(filename)
         THEN /\ write_to_device(path_packet(42, device_path(filename), clock), NoPayload)
              /\ \E r \in Replies : result' = (IF Truthy(r) THEN "true" ELSE "false")
         ELSE /\ result' = "false"
              /\ UNCHANGED log
    /\ Exit(0)
    /\ UNCHANGED <<inputs, aside, response, listing, image, stream, clock, interrupts, caught>>

\* stop_play (the stop-play action, and the start of play-select) sends 111 ...
stop_play_111 ==
    /\ pc = "ps_stop_111"
    /\ write_to_device(build_command_packet_header(111, clock), NoPayload)
    /\ Ignored
    /\ pc' = "ps_stop_114"
    /\ UNCHANGED <<inputs, aside, listing, image, stream, clock, interrupts, caught, result, exitCode, raised>>

\* ... and 114
stop_play_114 ==
    /\ pc = "ps_stop_114"
    /\ write_to_device(build_command_packet_header(114, clock), NoPayload)
    /\ Ignored
    /\ IF command = "play-select"
         THEN pc' = "ps_brightness" /\ UNCHANGED <<exitCode, raised>>
         ELSE Exit(0)
    /\ UNCHANGED <<inputs, aside, listing, image, stream, clock, interrupts, caught, result>>

\* Mutant: play_file is called for every supported name, not for .h264 alone
play_select_brightness_any_ext ==
    /\ pc = "ps_brightness"
    /\ write_to_device(byte_packet(14, VIDEO_BRIGHTNESS, clock), NoPayload)
    /\ Ignored
    /\ pc' = (IF Supported(filename) THEN "ps_play" ELSE "ps_111")
    /\ UNCHANGED <<inputs, aside, listing, image, stream, clock, interrupts, caught, result, exitCode, raised>>

\* send_brightness_command(dev, 32); play_file follows for a .h264 name only
play_select_brightness ==
    /\ pc = "ps_brightness"
    /\ write_to_device(byte_packet(14, VIDEO_BRIGHTNESS, clock), NoPayload)
    /\ Ignored
    /\ pc' = (IF Suffix(filename) = EXT_H264 THEN "ps_play" ELSE "ps_111")
    /\ UNCHANGED <<inputs, aside, listing, image, stream, clock, interrupts, caught, result, exitCode, raised>>

\* play_file(dev, filename): _play_command, opcode 98
play_file ==
    /\ pc = "ps_play"
    /\ IF Supported(filename)
         THEN /\ write_to_device(path_packet(98, device_path(filename), clock), NoPayload)
              /\ \E r \in Replies :
                    /\ response' = r
                    /\ result' = (IF Truthy(r) THEN "true" ELSE "false")
         ELSE /\ result' = "false"
              /\ UNCHANGED <<log, response>>
    /\ IF command = "play-select"
         THEN pc' = "ps_111" /\ UNCHANGED <<exitCode, raised>>
         ELSE Exit(0)
    /\ UNCHANGED <<inputs, aside, listing, image, stream, clock, interrupts, caught>>

play_select_111 ==
    /\ pc = "ps_111"
    /\ write_to_device(build_command_packet_header(111, clock), NoPayload)
    /\ Ignored
    /\ pc' = "ps_112"
    /\ UNCHANGED <<inputs, aside, listing, image, stream, clock, interrupts, caught, result, exitCode, raised>>

play_select_112 ==
    /\ pc = "ps_112"
    /\ write_to_device(build_command_packet_header(112, clock), NoPayload)
    /\ Ignored
    /\ pc' = "ps_clear"
    /\ UNCHANGED <<inputs, aside, listing, image, stream, clock, interrupts, caught, result, exitCode, raised>>

\* clear_image(dev); then play_file2, play_file3, or the error message
play_select_clear_image ==
    /\ pc = "ps_clear"
    /\ write_to_device(size_packet(102, PayloadLen(clear_png), clock), clear_png)
    /\ Ignored
    /\ IF Suffix(filename) = EXT_H264
         THEN pc' = "ps_play2" /\ UNCHANGED <<exitCode, raised>>
         ELSE IF Suffix(filename) = EXT_PNG
                THEN pc' = "ps_play3" /\ UNCHANGED <<exitCode, raised>>
                ELSE Exit(0)
    /\ UNCHANGED <<inputs, aside, listing, image, stream, clock, interrupts, caught, result>>

\* play_file2(dev, filename): play_file with _play2_command, opcode 110
play_file2 ==
    /\ pc = "ps_play2"
    /\ IF Supported(filename)
         THEN /\ write_to_device(path_packet(110, device_path(filename), clock), NoPayload)
              /\ \E r \in Replies :
                    /\ response' = r
                    /\ result' = (IF Truthy(r) THEN "true" ELSE "false")
         ELSE /\ result' = "false"
              /\ UNCHANGED <<log, response>>
    /\ Exit(0)
    /\ UNCHANGED <<inputs, aside, listing, image, stream, clock, interrupts, caught>>

\* play_file3(dev, filename): play_file with _play3_command, opcode 113
play_file3 ==
    /\ pc = "ps_play3"
    /\ IF Supported(filename)
         THEN /\ write_to_device(path_packet(113, device_path(filename), clock), NoPayload)
              /\ \E r \in Replies :
                    /\ response' = r
                    /\ result' = (IF Truthy(r) THEN "true" ELSE "false")
         ELSE /\ result' = "false"
              /\ UNCHANGED <<log, response>>
    /\ Exit(0)
    /\ UNCHANGED <<inputs, aside, listing, image, stream, clock, interrupts, caught>>

----------------------------------------------------------------------------
(* The refresh-storage action: send_refresh_storage_command; the upload    *)
(* action: send_refresh_storage_command, then upload_file                  *)

\* opcode 100; the reply is only logged
send_refresh_storage_command ==
    /\ pc = "up_refresh"
    /\ write_to_device(build_command_packet_header(100, clock), NoPayload)
    /\ IF command = "upload"
         THEN pc' = "up_check" /\ UNCHANGED <<exitCode, raised>>
         ELSE Exit(0)
    /\ UNCHANGED <<inputs, aside, response, listing, image, stream, clock, interrupts, caught, result>>

\* upload_file up to _open_file_command: the checks of the path, and
\* extract_h264_from_mp4 for an MP4, whose CalledProcessError reaches main's
\* `except Exception` (exit code 1)
upload_file ==
    /\ pc = "up_check"
    /\ \/ /\ ~fileExists \/ Suffix(filename) \notin {EXT_PNG, EXT_MP4}
          /\ result' = "false" /\ Exit(0)
          /\ UNCHANGED h264Cached
       \/ /\ fileExists /\ Suffix(filename) = EXT_PNG
          /\ pc' = "up_open"
          /\ UNCHANGED <<result, exitCode, raised, h264Cached>>
       \/ /\ fileExists /\ Suffix(filename) = EXT_MP4 /\ h264Cached
          /\ pc' = "up_open"
          /\ UNCHANGED <<result, exitCode, raised, h264Cached>>
       \/ /\ fileExists /\ Suffix(filename) = EXT_MP4 /\ ~h264Cached
          /\ h264Cached' = TRUE
          /\ pc' = "up_open"
          /\ UNCHANGED <<result, exitCode, raised>>
       \/ /\ fileExists /\ Suffix(filename) = EXT_MP4 /\ ~h264Cached
          /\ Raise("CalledProcessError")
          /\ UNCHANGED <<result, h264Cached>>
    /\ UNCHANGED <<inputs, aside, response, listing, image, offset, fileOpen, probes, passes, inLoop, clock, log,
                   interrupts, caught>>

\* the device path upload_file derives: img/<name>, or video/<name>.h264
upload_device_path(path) ==
    IF Suffix(path) = EXT_PNG THEN IMG_DIR \o BaseName(path)
    ELSE VIDEO_DIR \o BaseName(path) \o EXT_H264

\* _open_file_command, opcode 38, and `if not _open_file_command(...)`;
\* then _write_file_command opens the local file
open_file_command ==
    /\ pc = "up_open"
    /\ write_to_device(path_packet(38, upload_device_path(filename), clock), NoPayload)
    /\ \E r \in Replies :
          /\ response' = r
          /\ IF Truthy(r)
               THEN /\ pc' = "up_write"
                    /\ fileOpen' = fileOpen + 1
                    /\ offset' = 0
                    /\ UNCHANGED <<result, exitCode, raised>>
               ELSE /\ result' = "false"
                    /\ Exit(0)
                    /\ UNCHANGED <<fileOpen, offset>>
    /\ UNCHANGED <<inputs, aside, listing, image, probes, passes, inLoop, h264Cached, clock, interrupts, caught>>

\* Mutant: a short read, not the end of the file, marks the last chunk
write_file_header_short_is_last(bytes_read, last, ts) ==
    LET h8  == SliceAssign(build_command_packet_header(39, ts), 8, 12, BE32(CHUNK_SIZE))
        h12 == SliceAssign(h8, 12, 16, BE32(bytes_read))
    IN  IF bytes_read < CHUNK_SIZE THEN SetByte(h12, 16, 1) ELSE h12

\* Mutant: the two length fields are exchanged
write_file_header_swapped(bytes_read, last, ts) ==
    LET h8  == SliceAssign(build_command_packet_header(39, ts), 8, 12, BE32(bytes_read))
        h12 == SliceAssign(h8, 12, 16, BE32(CHUNK_SIZE))
    IN  IF last THEN SetByte(h12, 16, 1) ELSE h12

\* the header of an opcode-39 chunk: CHUNK_SIZE at 8..12, bytes_read at
\* 12..16, and 1 at 16 when f.tell() == file_size
write_file_header(bytes_read, last, ts) ==
    LET h8  == SliceAssign(build_command_packet_header(39, ts), 8, 12, BE32(CHUNK_SIZE))
        h12 == SliceAssign(h8, 12, 16, BE32(bytes_read))
    IN  IF last THEN SetByte(h12, 16, 1) ELSE h12

\* Mutant: buffer[-bytes_read:] = data, the data at the end of the buffer
write_file_buffer_data_last(off, bytes_read) ==
    << Seg("zero", 0, HEADER_SIZE + CHUNK_SIZE - bytes_read), Seg("file", off, bytes_read) >>

\* buffer = bytearray(TOTAL_BUFFER_SIZE); buffer[0:bytes_read] = data
write_file_buffer(off, bytes_read) ==
    LET TOTAL_BUFFER_SIZE == HEADER_SIZE + CHUNK_SIZE
    IN  << Seg("file", off, bytes_read), Seg("zero", 0, TOTAL_BUFFER_SIZE - bytes_read) >>

\* one turn of the loop of _write_file_command: f.read(CHUNK_SIZE), then
\* `return True` at the end of the file or an opcode-39 chunk and
\* `if not response: return False`
write_file_command ==
    /\ pc = "up_write"
    /\ LET bytes_read == Min(CHUNK_SIZE, fileSize - offset)
       IN  IF bytes_read = 0
             THEN /\ fileOpen' = fileOpen - 1
                  /\ result' = "true"
                  /\ Exit(0)
                  /\ UNCHANGED <<log, offset, response>>
             ELSE /\ write_to_device(
                        write_file_header(bytes_read, offset + bytes_read = fileSize, clock),
                        write_file_buffer(offset, bytes_read))
                  /\ offset' = offset + bytes_read
                  /\ \E r \in Replies :
                        /\ response' = r
                        /\ IF Truthy(r)
                             THEN UNCHANGED <<pc, fileOpen, result, exitCode, raised>>
                             ELSE /\ fileOpen' = fileOpen - 1
                                  /\ result' = "false"
                                  /\ Exit(0)
    /\ UNCHANGED <<inputs, aside, listing, image, probes, passes, inLoop, h264Cached, clock, interrupts, caught>>

\* f.read raises OSError: `except Exception` of _write_file_command
\* returns False
write_file_read_error ==
    /\ pc = "up_write"
    /\ fileOpen' = fileOpen - 1
    /\ result' = "false"
    /\ Exit(0)
    /\ UNCHANGED <<inputs, aside, response, listing, image, offset, probes, passes, inLoop, h264Cached, clock, log,
                   interrupts, caught>>

----------------------------------------------------------------------------
(* send_image *)

\* Mutant: one layer more than the whole budgets the encoding fills
num_layers_floor_plus_one(total, budget) == total \div budget + 1

\* math.ceil(total_size / max_chunk_bytes)
num_layers(total, budget) == (total + budget - 1) \div budget

\* Mutant: the band is pasted at the top of the canvas
build_layer_pasted_at_top(i, h, width, height) ==
    LET y_start       == Max(0, height - (i + 1) * h)
        canvas_height == height - i * h
    IN  [ box    |-> <<0, y_start, width, height - h * i>>,
          canvas |-> <<width, canvas_height>>,
          at     |-> <<0, 0>> ]

\* layer i of send_image: the box cropped from the source, the canvas it is
\* pasted on and the position of the paste
build_layer(i, h, width, height) ==
    LET y_start       == Max(0, height - (i + 1) * h)
        canvas_height == height - i * h
    IN  [ box    |-> <<0, y_start, width, height - h * i>>,
          canvas |-> <<width, canvas_height>>,
          at     |-> <<0, y_start>> ]

\* the lengths _encode_png may give for a layer: the encoder is Pillow's,
\* and send_image reads nothing of the encoding but its length.  A single
\* layer holds the pixels of the whole image and encodes as the image did;
\* one of several layers holds a band of the image on a transparent canvas,
\* and its length depends on what the band shows.
LayerSizes(layer_count, total) ==
    IF layer_count = 1 THEN {total}
    ELSE {CLEAR_PNG_SIZE, max_chunk_bytes, max_chunk_bytes + 1}

\* send_image keeps the replies without reading them: one of each kind
ImageReplies == {None, [len |-> 0, b8 |-> 0], [len |-> REPLY_MAX, b8 |-> DELAY_RST]}

\* Mutant: any(results)
any(results) == \E k \in 1..Len(results) : Truthy(results[k].response)

\* all(results)
all(results) == \A k \in 1..Len(results) : Truthy(results[k].response)

\* send_image up to its loop: Image.open, whose error is caught by
\* `except Exception` (False is returned), and the size of the full encoding
send_image ==
    /\ pc = "send_image"
    /\ IF fileExists
         THEN /\ \E total \in EncodedSizes(max_chunk_bytes) : total_size' = total
              /\ pc' = "si_layer"
              /\ UNCHANGED <<result, exitCode, raised>>
         ELSE /\ result' = "false"
              /\ Exit(0)
              /\ UNCHANGED total_size
    /\ UNCHANGED <<inputs, aside, response, listing, layers, stream, clock, log, interrupts, caught>>

\* one turn of `for i in range(num_layers)`: the layer is built, encoded and
\* written by _send_png_bytes (opcode 102), its reply is kept; after the
\* last turn `return all(results)`
send_image_layer ==
    /\ pc = "si_layer"
    /\ LET layer_count == num_layers(total_size, max_chunk_bytes)
           h == img[2] \div layer_count
           i == Len(layers)
       IN  IF i < layer_count
             THEN /\ \E n \in LayerSizes(layer_count, total_size), r \in ImageReplies :
                        /\ write_to_device(size_packet(102, n, clock), << Seg("layer", i, n) >>)
                        /\ layers' = Append(layers, [ layer    |-> build_layer(i, h, img[1], img[2]),
                                                      encoded  |-> n,
                                                      response |-> r ])
                  /\ UNCHANGED <<pc, result, exitCode, raised>>
             ELSE /\ result' = (IF all(layers) THEN "true" ELSE "false")
                  /\ Exit(0)
                  /\ UNCHANGED <<log, layers>>
    /\ UNCHANGED <<inputs, aside, response, listing, total_size, stream, clock, interrupts, caught>>

----------------------------------------------------------------------------
(* send_video *)

\* extract_h264_from_mp4 as send_video calls it: whatever it raises is
\* caught by send_video's `except Exception`, which returns False
send_video_extract ==
    /\ pc = "sv_extract"
    /\ \/ /\ ~fileExists                    \* FileNotFoundError
          /\ result' = "false" /\ Exit(0)
          /\ UNCHANGED h264Cached
       \/ /\ fileExists /\ h264Cached       \* the cached stream is reused
          /\ pc' = "sv_111"
          /\ UNCHANGED <<result, exitCode, raised, h264Cached>>
       \/ /\ fileExists /\ ~h264Cached      \* ffmpeg writes the stream
          /\ h264Cached' = TRUE
          /\ pc' = "sv_111"
          /\ UNCHANGED <<result, exitCode, raised>>
       \/ /\ fileExists /\ ~h264Cached      \* CalledProcessError
          /\ result' = "false" /\ Exit(0)
          /\ UNCHANGED h264Cached
    /\ UNCHANGED <<inputs, aside, response, listing, image, offset, fileOpen, probes, passes, inLoop, clock, log,
                   interrupts, caught>>

\* Mutant: a command of the prelude without a reply ends the prelude
Prelude_stops_without_reply(here, pkt, payload, next) ==
    /\ pc = here
    /\ write_to_device(pkt, payload)
    /\ \E r \in DroppedReplies :
          /\ response' = r
          /\ pc' = (IF Truthy(r) THEN next ELSE "sv_teardown")
    /\ UNCHANGED <<inputs, aside, listing, image, stream, clock, interrupts, caught, result, exitCode, raised>>

\* one command of the prelude, its reply ignored
Prelude(here, pkt, payload, next) ==
    /\ pc = here
    /\ write_to_device(pkt, payload)
    /\ Ignored
    /\ pc' = next
    /\ UNCHANGED <<inputs, aside, listing, image, stream, clock, interrupts, caught, result, exitCode, raised>>

send_video_111 == Prelude("sv_111", build_command_packet_header(111, clock), NoPayload, "sv_112")

send_video_112 == Prelude("sv_112", build_command_packet_header(112, clock), NoPayload, "sv_13")

send_video_13 == Prelude("sv_13", build_command_packet_header(13, clock), NoPayload, "sv_14")

send_video_brightness ==
    Prelude("sv_14", byte_packet(14, VIDEO_BRIGHTNESS, clock), NoPayload, "sv_41")

send_video_41 == Prelude("sv_41", build_command_packet_header(41, clock), NoPayload, "sv_102")

send_video_clear_image ==
    Prelude("sv_102", size_packet(102, PayloadLen(clear_png), clock), clear_png, "sv_15")

send_video_frame_rate ==
    Prelude("sv_15", byte_packet(15, VIDEO_FRAME_RATE, clock), NoPayload, "sv_open")

\* the positions inside the inner try of send_video
InTry == inLoop /\ pc \in {"sv_open", "sv_read", "sv_delay"}

\* `try: while True: with open(output_path, 'rb') as f:`
send_video_open ==
    /\ pc = "sv_open"
    /\ inLoop' = TRUE
    /\ fileOpen' = fileOpen + 1
    /\ offset' = 0
    /\ pc' = "sv_read"
    /\ UNCHANGED <<inputs, aside, response, listing, image, probes, passes, h264Cached, clock, log, interrupts,
                   caught, result, exitCode, raised>>

\* Mutant: a reply whose byte 8 is 3 asks for no delay
NeedsDelay_below_three(r) == r = None \/ r.len < 9 \/ r.b8 < BUSY_MAX

\* the check of the reply to a chunk: is delay(dev, 2) called?
NeedsDelay(r) == r = None \/ r.len < 9 \/ r.b8 <= BUSY_MAX

\* the replies to a chunk that are explored: once MaxProbes probes are
\* written, only those that ask for no probe
ChunkReplies == IF probes < MaxProbes THEN Replies ELSE {r \in Replies : ~NeedsDelay(r)}

\* Mutant: the outer loop is left after the first pass whatever loop is
after_pass_breaks(lp) == "sv_teardown"

\* `if not loop: break` at the end of a pass: the file is opened again or
\* the teardown follows
after_pass(lp) == IF lp THEN "sv_open" ELSE "sv_teardown"

\* one turn of the inner loop: f.read(202752), then the end of the pass or
\* an opcode-121 chunk and 30 ms of sleep
send_video_chunk ==
    /\ pc = "sv_read"
    /\ LET chunk_size == Min(VIDEO_CHUNK, fileSize - offset)
       IN  IF chunk_size = 0
             THEN /\ fileOpen' = fileOpen - 1
                  /\ pc' = after_pass(loop)
                  /\ IF after_pass(loop) = "sv_open"
                       THEN /\ passes + 1 < MaxPasses
                            /\ passes' = passes + 1
                       ELSE UNCHANGED passes
                  /\ UNCHANGED <<log, clock, offset, response>>
             ELSE /\ write_to_device(size_packet(121, chunk_size, clock),
                                     << Seg("file", offset, chunk_size) >>)
                  /\ sleep(CHUNK_SLEEP_MS)
                  /\ offset' = offset + chunk_size
                  /\ \E r \in ChunkReplies :
                        /\ response' = r
                        /\ pc' = (IF NeedsDelay(r) THEN "sv_delay" ELSE "sv_read")
                  /\ UNCHANGED <<fileOpen, passes>>
    /\ UNCHANGED <<inputs, aside, listing, image, probes, inLoop, h264Cached, interrupts, caught, result, exitCode, raised>>

\* `response[8]` of a non-empty reply shorter than 9 bytes: IndexError
ProbeRaises(r) == Truthy(r) /\ r.len < 9

\* Mutant: a reply whose byte 8 equals rst asks for a further probe
ProbeRecurses_at_threshold(r) == Truthy(r) /\ r.len >= 9 /\ r.b8 >= DELAY_RST

\* `if response and response[8] > rst`
ProbeRecurses(r) == Truthy(r) /\ r.len >= 9 /\ r.b8 > DELAY_RST

\* the replies to a probe that are explored: the last probe the bound
\* allows gets one that ends the recursion
ProbeReplies == IF probes + 1 < MaxProbes THEN Replies ELSE {r \in Replies : ~ProbeRecurses(r)}

\* delay(dev, 2): 50 ms of sleep, an opcode-122 probe, and
\* `if response and response[8] > rst: delay(dev, rst)`.  An IndexError
\* leaves the inner try (it is no KeyboardInterrupt) for send_video's
\* `except Exception`: the file is closed and False is returned.
delay ==
    /\ pc = "sv_delay"
    /\ sleep(DELAY_SLEEP_MS)
    /\ write_to_device(build_command_packet_header(122, clock'), NoPayload)
    /\ probes' = probes + 1
    /\ \E r \in ProbeReplies :
          /\ response' = r
          /\ IF ProbeRaises(r)
               THEN /\ fileOpen' = fileOpen - 1
                    /\ result' = "false"
                    /\ Exit(0)
               ELSE /\ pc' = (IF ProbeRecurses(r) THEN "sv_delay" ELSE "sv_read")
                    /\ UNCHANGED <<fileOpen, result, exitCode, raised>>
    /\ UNCHANGED <<inputs, aside, listing, image, offset, passes, inLoop, h264Cached, interrupts, caught>>

\* Mutant: the file is opened without `with`, an error leaves it open
send_video_read_error_leaks ==
    /\ pc = "sv_read"
    /\ result' = "false"
    /\ Exit(0)
    /\ UNCHANGED <<inputs, aside, response, listing, image, stream, clock, log, interrupts, caught>>

\* f.read raises OSError: as for IndexError, False is returned
send_video_read_error ==
    /\ pc = "sv_read"
    /\ fileOpen' = fileOpen - 1
    /\ result' = "false"
    /\ Exit(0)
    /\ UNCHANGED <<inputs, aside, response, listing, image, offset, probes, passes, inLoop, h264Cached, clock, log,
                   interrupts, caught>>

\* Mutant: the inner try has no `except KeyboardInterrupt:`, the interrupt
\* reaches main
send_video_interrupt_uncaught ==
    /\ InTry
    /\ interrupts < MaxInterrupts
    /\ interrupts' = interrupts + 1
    /\ intAt' = Len(log)
    /\ intPc' = pc
    /\ fileOpen' = 0
    /\ Exit(0)
    /\ UNCHANGED <<inputs, aside, response, listing, image, offset, probes, passes, inLoop, h264Cached, clock, log, result>>

\* `except KeyboardInterrupt:` of the inner try: the file is closed by its
\* `with`, the loop is left, the teardown follows
send_video_interrupted ==
    /\ InTry
    /\ interrupts < MaxInterrupts
    /\ interrupts' = interrupts + 1
    /\ intAt' = Len(log)
    /\ intPc' = pc
    /\ fileOpen' = 0
    /\ pc' = "sv_teardown"
    /\ UNCHANGED <<inputs, aside, response, listing, image, offset, probes, passes, inLoop, h264Cached, clock, log,
                   result, exitCode, raised>>

\* Mutant: `return True` without the reset
send_video_teardown_skipped ==
    /\ pc = "sv_teardown"
    /\ result' = "true"
    /\ Exit(0)
    /\ UNCHANGED <<inputs, aside, response, listing, image, stream, clock, log, interrupts, caught>>

\* opcode 123 and `return True`
send_video_teardown ==
    /\ pc = "sv_teardown"
    /\ write_to_device(build_command_packet_header(123, clock), NoPayload)
    /\ result' = "true"
    /\ Exit(0)
    /\ UNCHANGED <<inputs, aside, response, listing, image, stream, clock, interrupts, caught>>

\* A KeyboardInterrupt outside send_video's inner try: it reaches main's
\* handler, which exits with 0
KeyboardInterrupt ==
    /\ pc # "exit"
    /\ ~InTry \/ (pc = "sv_open" /\ passes = 0)
    /\ interrupts < MaxInterrupts
    /\ interrupts' = interrupts + 1
    /\ Raise("KeyboardInterrupt")
    /\ fileOpen' = 0
    /\ UNCHANGED <<inputs, aside, response, listing, image, offset, probes, passes, inLoop, h264Cached, clock, log,
                   caught, result>>

Next ==
    \/ find_usb_device
    \/ send_sync_command
    \/ delay_sync
    \/ send_brightness_command
    \/ send_restart_device_command
    \/ send_save_settings_command
    \/ send_list_storage_command
    \/ clear_image
    \/ send_image
    \/ send_image_layer
    \/ delete_file
    \/ stop_play_111
    \/ stop_play_114
    \/ play_select_brightness
    \/ play_file
    \/ play_select_111
    \/ play_select_112
    \/ play_select_clear_image
    \/ play_file2
    \/ play_file3
    \/ send_refresh_storage_command
    \/ upload_file
    \/ open_file_command
    \/ write_file_command
    \/ write_file_read_error
    \/ send_video_extract
    \/ send_video_111
    \/ send_video_112
    \/ send_video_13
    \/ send_video_brightness
    \/ send_video_41
    \/ send_video_clear_image
    \/ send_video_frame_rate
    \/ send_video_open
    \/ send_video_chunk
    \/ delay
    \/ send_video_read_error
    \/ send_video_interrupted
    \/ send_video_teardown
    \/ KeyboardInterrupt

Spec == Init /\ [][Next]_vars

\* delay, once called, runs: the interpreter executes its statements, the
\* sleep ends and write_to_device returns within its timeouts
SpecLive == Spec /\ WF_vars(delay)

\* the opcodes written so far, in order
Ops == [i \in 1..Len(log) |-> log[i].pkt[1]]

----------------------------------------------------------------------------
(* The file functions called on their own: delete_file, play_file,         *)
(* play_file2, play_file3 and upload_file with any filename, as a caller   *)
(* other than main may call them.                                          *)

Calls == {"delete_file", "play_file", "play_file2", "play_file3", "upload_file"}

\* where the body of each function starts
Entry(f) ==
    CASE f = "delete_file" -> "delete"
      [] f = "play_file"   -> "ps_play"
      [] f = "play_file2"  -> "ps_play2"
      [] f = "play_file3"  -> "ps_play3"
      [] f = "upload_file" -> "up_check"

InitCall ==
    /\ command \in Calls
    /\ filename \in (IF command = "upload_file" THEN UploadNames ELSE Filenames \cup UploadNames)
    /\ fileExists \in (IF command = "upload_file" THEN BOOLEAN ELSE {FALSE})
    /\ h264Cached \in (IF command = "upload_file" THEN BOOLEAN ELSE {FALSE})
    /\ fileSize \in (IF command = "upload_file" THEN FileSizes(CHUNK_SIZE) ELSE {0})
    /\ clock \in (IF command = "upload_file" THEN {16909060} ELSE StartClocks)
    /\ pc = Entry(command)
    /\ devPresent = TRUE
    /\ loop = FALSE
    /\ brightness = 0
    /\ settings = <<0, 0, 0, 0, 0, 0>>
    /\ storageType = ""
    /\ img = <<0, 0>>
    /\ log = << >>
    /\ offset = 0
    /\ fileOpen = 0
    /\ probes = 0
    /\ passes = 0
    /\ response = None
    /\ tries = 0
    /\ receive_offset = 0
    /\ total_size = 0
    /\ layers = << >>
    /\ interrupts = 0
    /\ intAt = -1
    /\ intPc = ""
    /\ inLoop = FALSE
    /\ result = "none"
    /\ exitCode = -1
    /\ raised = ""
    /\ AsideInit
    /\ command_id = 0
    /\ cmd_packet = << >>
    /\ ciphertext = << >>
    /\ envelope = << >>

NextCall ==
    \/ delete_file
    \/ play_file
    \/ play_file2
    \/ play_file3
    \/ upload_file
    \/ open_file_command
    \/ write_file_command
    \/ write_file_read_error

SpecCall == InitCall /\ [][NextCall]_vars

----------------------------------------------------------------------------
(* The packet codec on its own: build_command_packet_header and            *)
(* encrypt_command_packet applied to every command id the program uses, at *)
(* several times of day, with the real cipher.                             *)

\* the command ids of the build_command_packet_header call sites, and the
\* ends of the byte range
Opcodes == {10, 11, 13, 14, 15, 38, 39, 41, 42, 98, 99, 100, 102, 110, 111, 112, 113,
            114, 121, 122, 123, 125} \cup {0, 255}

\* milliseconds since local midnight at which the header is built
Timestamps == {0, 16909060, DAY_MS - 1}

\* args.value of the brightness action
BrightnessValues == {0, 80, 102}

InitCodec ==
    /\ command_id \in Opcodes
    /\ clock \in Timestamps
    /\ brightness \in (IF command_id = 14 THEN BrightnessValues ELSE {0})
    /\ cmd_packet = << >>
    /\ ciphertext = << >>
    /\ envelope = << >>
    /\ pc = "codec"
    /\ command = "none"
    /\ filename = << >>
    /\ loop = FALSE
    /\ settings = <<0, 0, 0, 0, 0, 0>>
    /\ storageType = ""
    /\ img = <<0, 0>>
    /\ tries = 0
    /\ response = None
    /\ receive_offset = 0
    /\ total_size = 0
    /\ layers = << >>
    /\ devPresent = FALSE
    /\ fileExists = FALSE
    /\ h264Cached = FALSE
    /\ fileSize = 0
    /\ log = << >>
    /\ offset = 0
    /\ fileOpen = 0
    /\ probes = 0
    /\ passes = 0
    /\ interrupts = 0
    /\ intAt = -1
    /\ intPc = ""
    /\ inLoop = FALSE
    /\ result = "none"
    /\ exitCode = -1
    /\ raised = ""
    /\ AsideInit

idle == <<command, filename, loop, brightness, settings, storageType, img,
          devPresent, fileExists, fileSize, clock,
          log, stream, response, listing, image, interrupts, caught, result, exitCode,
          raised, aside>>

\* cmd_packet = build_command_packet_header(command_id)
codec_header ==
    /\ pc = "codec"
    /\ cmd_packet' = build_command_packet_header(command_id, clock)
    /\ pc' = "header"
    /\ UNCHANGED <<idle, command_id, ciphertext, envelope>>

\* send_brightness_command: the header of command 14 with cmd_packet[8] = value
codec_brightness ==
    /\ pc = "codec"
    /\ command_id = 14
    /\ cmd_packet' = byte_packet(command_id, brightness, clock)
    /\ pc' = "brightness"
    /\ UNCHANGED <<idle, command_id, ciphertext, envelope>>

\* envelope = encrypt_command_packet(cmd_packet): encrypted =
\* encrypt_with_des(des_key, data), then the frame around it
codec_encrypt ==
    /\ pc \in {"header", "brightness"}
    /\ ciphertext' = encrypt_with_des(des_key, cmd_packet)
    /\ envelope' = frame_packet(ciphertext')
    /\ pc' = IF pc = "header" THEN "header_sent" ELSE "brightness_sent"
    /\ UNCHANGED <<idle, command_id, cmd_packet>>

\* CBC decryption of whole blocks under the round keys in reverse order:
\* each block is decrypted and XORed with the ciphertext block before it
\* (the IV for the first)
CbcDecrypt(ks, iv, data) ==
    LET blocks == Tup([j \in 1..(Len(data) \div 8) |->
                         Bytes(XorBits(DESBits(ks, Bits(SubSeq(data, 8 * j - 7, 8 * j))),
                                       Bits(IF j = 1 THEN iv
                                            ELSE SubSeq(data, 8 * j - 15, 8 * j - 8))))])
    IN  Tup([i \in 1..Len(data) |-> blocks[((i - 1) \div 8) + 1][((i - 1) % 8) + 1]])

\* DES.new(key, DES.MODE_CBC, iv).decrypt(data), as the receiver of an
\* envelope computes it
DES_CBC_decrypt(key, iv, data) ==
    LET ks == SubKeys(key)
    IN  CbcDecrypt(Tup([n \in 1..16 |-> ks[17 - n]]), iv, data)

\* the receiver decrypts bytes 0..504 of the envelope with the key as IV
codec_decrypt ==
    /\ pc \in {"header_sent", "brightness_sent"}
    /\ plaintext' = DES_CBC_decrypt(des_key, des_key, Slice(envelope, 0, PACKET_SIZE + 4))
    /\ pc' = IF pc = "header_sent" THEN "header_received" ELSE "brightness_received"
    /\ UNCHANGED <<command, filename, loop, brightness, settings, storageType, img,
                   devPresent, fileExists, fileSize, clock, codec,
                   log, stream, response, listing, image, interrupts, caught, result, exitCode,
                   raised, transport, parsers>>

NextCodec ==
    \/ codec_header
    \/ codec_brightness
    \/ codec_encrypt
    \/ codec_decrypt

SpecCodec == InitCodec /\ [][NextCodec]_vars

----------------------------------------------------------------------------
(* write_to_device on its own, with read_flush: the operations on the two  *)
(* bulk endpoints of a few calls in a row                                  *)

MaxCalls == 2        \* calls of write_to_device in a row

READ_SIZE == 512         \* ep_in.read(512, ...)
WRITE_TIMEOUT_MS == 2000 \* timeout=2000 of write_to_device
FLUSH_TIMEOUT_MS == 100  \* timeout=100 of read_flush
max_attempts == 5        \* read_flush(ep_in, max_attempts=5)

\* the variables of main's run where main does not run
NotRunning ==
    /\ command = "none"
    /\ filename = << >>
    /\ loop = FALSE
    /\ brightness = 0
    /\ settings = <<0, 0, 0, 0, 0, 0>>
    /\ storageType = ""
    /\ img = <<0, 0>>
    /\ devPresent = TRUE
    /\ fileExists = FALSE
    /\ h264Cached = FALSE
    /\ fileSize = 0
    /\ clock = 0
    /\ log = << >>
    /\ offset = 0
    /\ fileOpen = 0
    /\ probes = 0
    /\ passes = 0
    /\ tries = 0
    /\ receive_offset = 0
    /\ total_size = 0
    /\ layers = << >>
    /\ interrupts = 0
    /\ intAt = -1
    /\ intPc = ""
    /\ inLoop = FALSE
    /\ result = "none"
    /\ exitCode = -1
    /\ raised = ""
    /\ command_id = 0
    /\ cmd_packet = << >>
    /\ ciphertext = << >>
    /\ envelope = << >>

still == <<inputs, log, stream, listing, image, interrupts, caught, result, exitCode, raised,
           clock>>

\* one operation on an endpoint: ep_out.write(data, timeout) or
\* ep_in.read(size, timeout); status "ok", or the USBError it raised
Transfer(op, size, timeout, status, data) ==
    [op |-> op, size |-> size, timeout |-> timeout, status |-> status, data |-> data]

\* what ep_in.read(512, timeout) of write_to_device gives: a reply of 0 to
\* 512 bytes, or a USBError
PrimaryReads ==
    {Transfer("read", READ_SIZE, WRITE_TIMEOUT_MS, "ok", r) : r \in Replies \ {None}}
    \cup {Transfer("read", READ_SIZE, WRITE_TIMEOUT_MS, st, None) : st \in {"timeout", "error"}}

\* what ep_in.read(512, timeout=100) of read_flush gives: stale bytes that
\* are dropped, a timeout (errno 110), or another USBError
FlushReads ==
    {Transfer("flush", READ_SIZE, FLUSH_TIMEOUT_MS, "ok", [len |-> REPLY_MAX, b8 |-> 0])}
    \cup {Transfer("flush", READ_SIZE, FLUSH_TIMEOUT_MS, st, None) : st \in {"timeout", "error"}}

InitTransport ==
    /\ NotRunning
    /\ pc = "wtd_write"
    /\ response = None
    /\ usb = << >>
    /\ attempt = 0
    /\ returned = << >>
    /\ storage = << >>
    /\ report = << >>
    /\ receive_buffer = << >>
    /\ names = << >>
    /\ plaintext = << >>

\* ep_out.write(data, timeout); `except usb.core.USBError: return None`
ep_out_write ==
    /\ pc = "wtd_write"
    /\ Len(returned) < MaxCalls
    /\ \E st \in {"ok", "error"} :
          /\ usb' = Append(usb, Transfer("write", 0, WRITE_TIMEOUT_MS, st, None))
          /\ IF st = "ok"
               THEN pc' = "wtd_read" /\ UNCHANGED returned
               ELSE pc' = "wtd_write" /\ returned' = Append(returned, None)
    /\ UNCHANGED <<still, response, attempt, parsers, plaintext>>

\* response = ep_in.read(512, timeout); `except usb.core.USBError: return
\* None`, else read_flush(ep_in) is entered
ep_in_read ==
    /\ pc = "wtd_read"
    /\ \E t \in PrimaryReads :
          /\ usb' = Append(usb, t)
          /\ IF t.status = "ok"
               THEN /\ response' = t.data
                    /\ attempt' = 0
                    /\ pc' = "wtd_flush"
                    /\ UNCHANGED returned
               ELSE /\ returned' = Append(returned, None)
                    /\ pc' = "wtd_write"
                    /\ UNCHANGED <<response, attempt>>
    /\ UNCHANGED <<still, parsers, plaintext>>

\* Mutant: only an error other than a timeout ends the drain
flush_ends_on_error_only(status, n) == status = "error" \/ n = max_attempts

\* read_flush leaves its loop: `break` in both branches of the except
\* clause, or range(max_attempts) is exhausted
flush_ends(status, n) == status # "ok" \/ n = max_attempts

\* one iteration of read_flush: ep_in.read(512, timeout=100)
read_flush ==
    /\ pc = "wtd_flush"
    /\ attempt < max_attempts
    /\ \E t \in FlushReads :
          /\ usb' = Append(usb, t)
          /\ attempt' = attempt + 1
          /\ pc' = IF flush_ends(t.status, attempt') THEN "wtd_return" ELSE "wtd_flush"
    /\ UNCHANGED <<still, response, returned, parsers, plaintext>>

\* Mutant: a USBError of the drain other than a timeout makes the call return None
flushed_error_propagates(resp, status) == IF status = "error" THEN None ELSE resp

\* read_flush has returned, whatever its last read gave: the result is
\* the primary read
flushed(resp, status) == resp

\* return bytes(response)
write_to_device_return ==
    /\ pc = "wtd_return"
    /\ returned' = Append(returned, flushed(response, usb[Len(usb)].status))
    /\ pc' = "wtd_write"
    /\ UNCHANGED <<still, response, usb, attempt, parsers, plaintext>>

NextTransport ==
    \/ ep_out_write
    \/ ep_in_read
    \/ read_flush
    \/ write_to_device_return

SpecTransport == InitTransport /\ [][NextTransport]_vars

----------------------------------------------------------------------------
(* send_refresh_storage_command on the reply it has read, with format_bytes *)

GB_THRESHOLD == 1048576   \* 1024 * 1024 of format_bytes
MIN_INFO_REPLY == 20      \* len(response) < 20

\* the reply as the caller holds it: None, or bytes
NoReply == [none |-> TRUE, bytes |-> << >>]
Reply(bytes) == [none |-> FALSE, bytes |-> bytes]

\* the values of a counter of the card, in kilobytes
Counters == {128, 256, 384, 512, 1024, 1048575, 1048576, 1048577, 3145728}

\* a reply to opcode 100 of n bytes with the three counters in it
InfoReply(n, total, used, valid) ==
    SliceAssign(SliceAssign(SliceAssign(Zeros(n), 8, 12, LE32(total)), 12, 16, LE32(used)),
                16, 20, LE32(valid))

\* f"{val / d:.2f}": val / d, exact in a double for a power of two d and
\* val < 2^53, rounded to hundredths, a tie to the even neighbour; the
\* result counts hundredths
fixed2(val, d) ==
    LET q == val \div d
        r == val % d
        h == (r * 100) \div d
        rest == (r * 100) % d
        up == 2 * rest > d \/ (2 * rest = d /\ h % 2 = 1)
    IN  q * 100 + h + (IF up THEN 1 ELSE 0)

\* format_bytes(val): the number printed with two decimals, and the unit
format_bytes(val) ==
    IF val > GB_THRESHOLD
      THEN [unit |-> "GB", hundredths |-> fixed2(val, GB_THRESHOLD)]
      ELSE [unit |-> "MB", hundredths |-> fixed2(val, 1024)]

InitStorage ==
    /\ NotRunning
    /\ pc = "info"
    /\ response = None
    /\ storage \in {NoReply, Reply(<< >>), Reply(Zeros(MIN_INFO_REPLY - 1))}
                   \cup {Reply(InfoReply(n, t, u, v)) :
                            n \in {MIN_INFO_REPLY, REPLY_MAX}, t \in Counters,
                            u \in Counters, v \in Counters}
    /\ report = << >>
    /\ usb = << >>
    /\ attempt = 0
    /\ returned = << >>
    /\ receive_buffer = << >>
    /\ names = << >>
    /\ plaintext = << >>

\* send_refresh_storage_command after write_to_device: `if not response or
\* len(response) < 20: return`, else total, used and valid are logged
send_refresh_storage_report ==
    /\ pc = "info"
    /\ IF storage.none \/ Len(storage.bytes) < MIN_INFO_REPLY
         THEN report' = << >>
         ELSE report' = <<format_bytes(FromLE32(Slice(storage.bytes, 8, 12))),
                          format_bytes(FromLE32(Slice(storage.bytes, 12, 16))),
                          format_bytes(FromLE32(Slice(storage.bytes, 16, 20)))>>
    /\ pc' = "info_done"
    /\ UNCHANGED <<still, response, transport, storage, receive_buffer, names, plaintext>>

NextStorage == send_refresh_storage_report

SpecStorage == InitStorage /\ [][NextStorage]_vars

----------------------------------------------------------------------------
(* send_list_storage_command on the bytes it has received: the parser      *)

MaxTokens == 4       \* pieces a received listing is put together from

FILE_TOKEN == <<102, 105, 108, 101, 58>>   \* 'file:'
SLASH == 47                                 \* '/'

\* the pieces: file: and its two halves, '/', two names, a blank, a
\* tabulator, a byte that is not UTF-8, and U+00E9 in UTF-8
Pieces == {FILE_TOKEN, <<102, 105>>, <<108, 101, 58>>, <<SLASH>>, <<97>>, <<98, 99>>,
           <<32>>, <<9>>, <<255>>, <<195, 169>>}

\* the listings of at most n pieces
RECURSIVE Listings(_)
Listings(n) ==
    IF n = 0 THEN {<< >>}
    ELSE LET shorter == Listings(n - 1)
         IN  shorter \cup {l \o p : l \in shorter, p \in Pieces}

\* 'file:a/b/c/'
LISTING_ABC == FILE_TOKEN \o <<97, SLASH, 98, SLASH, 99, SLASH>>

\* bytes.decode('utf-8', errors='ignore') from index i on, for bytes that
\* hold sequences of one and two bytes: the code points of the well-formed
\* sequences, every other byte dropped
RECURSIVE decode_ignore(_, _)
decode_ignore(b, i) ==
    IF i > Len(b) THEN << >>
    ELSE IF b[i] < 128 THEN <<b[i]>> \o decode_ignore(b, i + 1)
    ELSE IF b[i] \in 194..223 /\ i < Len(b) /\ b[i + 1] \in 128..191
      THEN <<(b[i] - 192) * 64 + (b[i + 1] - 128)>> \o decode_ignore(b, i + 2)
    ELSE decode_ignore(b, i + 1)

\* str.split(sep) from index i on, the current fragment starting at start
RECURSIVE split_from(_, _, _, _)
split_from(s, sep, i, start) ==
    IF i + Len(sep) - 1 > Len(s) THEN <<SubSeq(s, start, Len(s))>>
    ELSE IF SubSeq(s, i, i + Len(sep) - 1) = sep
      THEN <<SubSeq(s, start, i - 1)>> \o split_from(s, sep, i + Len(sep), i + Len(sep))
    ELSE split_from(s, sep, i + 1, start)

split(s, sep) == split_from(s, sep, 1, 1)

\* str.rstrip('/')
RECURSIVE rstrip(_, _)
rstrip(s, c) ==
    IF s # << >> /\ s[Len(s)] = c THEN rstrip(SubSeq(s, 1, Len(s) - 1), c) ELSE s

\* str.isspace of a character below U+0100
isspace(c) == c \in 9..13 \cup 28..32 \cup {133, 160}

\* Mutant: `if filename:`, a name of blanks is logged too
strip_is_identity(s) == s

\* str.strip()
RECURSIVE strip(_)
strip(s) ==
    IF s = << >> THEN s
    ELSE IF isspace(s[1]) THEN strip(Tail(s))
    ELSE IF isspace(s[Len(s)]) THEN strip(SubSeq(s, 1, Len(s) - 1))
    ELSE s

\* the names logged for receive_buffer[:receive_offset]: none when nothing
\* was received or 'file:' does not occur, else those of files[-1]
listed_names(buffer) ==
    LET files == split(decode_ignore(buffer, 1), FILE_TOKEN)
        Named(f) == strip(f) # << >>
    IN  IF buffer = << >> \/ Len(files) <= 1 THEN << >>
        ELSE SelectSeq(split(rstrip(files[Len(files)], SLASH), <<SLASH>>), Named)

InitListing ==
    /\ NotRunning
    /\ pc = "parse"
    /\ response = None
    /\ receive_buffer \in Listings(MaxTokens) \cup {LISTING_ABC}
    /\ names = << >>
    /\ usb = << >>
    /\ attempt = 0
    /\ returned = << >>
    /\ storage = << >>
    /\ report = << >>
    /\ plaintext = << >>

\* send_list_storage_command after its loop
list_storage_parse ==
    /\ pc = "parse"
    /\ names' = listed_names(receive_buffer)
    /\ pc' = "parsed"
    /\ UNCHANGED <<still, response, transport, storage, report, receive_buffer, plaintext>>

NextListing == list_storage_parse

SpecListing == InitListing /\ [][NextListing]_vars

----------------------------------------------------------------------------
(* Two runs of main on one device: the upload action, then the play-select *)
(* action for the file it stored                                           *)

\* the name under which upload_file stores the file: the last component
\* of the device path
stored_name(path) ==
    IF Suffix(path) = EXT_PNG THEN BaseName(path) ELSE BaseName(path) \o EXT_H264

InitSession == Init /\ command = "upload"

\* the first run has uploaded the file and exited; main runs again with
\* play-select --filename <stored name>; the transport goes on recording
play_select_after_upload ==
    /\ pc = "exit"
    /\ command = "upload"
    /\ result = "true"
    /\ command' = "play-select"
    /\ filename' = stored_name(filename)
    /\ pc' = "find_usb_device"
    /\ result' = "none"
    /\ exitCode' = -1
    /\ raised' = ""
    /\ offset' = 0
    /\ fileOpen' = 0
    /\ UNCHANGED <<loop, brightness, settings, storageType, img, devPresent, fileExists,
                   fileSize, codec, aside, response, listing, image, probes, passes, inLoop,
                   h264Cached, clock, log, interrupts, caught>>

NextSession ==
    \/ find_usb_device
    \/ delay_sync
    \/ send_refresh_storage_command
    \/ upload_file
    \/ open_file_command
    \/ write_file_command
    \/ write_file_read_error
    \/ play_select_after_upload
    \/ stop_play_111
    \/ stop_play_114
    \/ play_select_brightness
    \/ play_file
    \/ play_select_111
    \/ play_select_112
    \/ play_select_clear_image
    \/ play_file2
    \/ play_file3
    \/ KeyboardInterrupt

SpecSession == InitSession /\ [][NextSession]_vars

----------------------------------------------------------------------------
(* Properties *)

IsPrefix(a, b) == Len(a) <= Len(b) /\ a = SubSeq(b, 1, Len(a))

\* ceil(n / d)
CeilDiv(n, d) == (n + d - 1) \div d

\* the transfers with opcode op, in order
Entries(op) == SelectSeq(log, LAMBDA e : e.pkt[1] = op)

\* the run ended without a KeyboardInterrupt
Completed == pc = "exit" /\ devPresent /\ interrupts = 0

PLAY_SELECT_H264 == <<10, 111, 114, 14, 98, 111, 112, 102, 110>>
PLAY_SELECT_PNG == <<10, 111, 114, 14, 111, 112, 102, 113>>

\* C1: play-select writes, for a .h264 name, 10, 111, 114, 14 (brightness
\* 32), 98, 111, 112, 102 (the built-in PNG), 110 and for a .png name
\* 10, 111, 114, 14, 111, 112, 102, 113, in this order and nothing else:
\* what is written is at every moment a prefix of that sequence, and the
\* whole of it when the action has run to its end.
C1_PlaySelectOrder ==
    (command = "play-select" /\ Suffix(filename) \in {EXT_H264, EXT_PNG}) =>
        LET expected == IF Suffix(filename) = EXT_H264 THEN PLAY_SELECT_H264
                        ELSE PLAY_SELECT_PNG
        IN  /\ IsPrefix(Ops, expected)
            /\ Completed => Ops = expected
            /\ Len(log) >= 4 => log[4].pkt[9] = 32
            /\ \A i \in 1..Len(log) :
                  log[i].payload = (IF Ops[i] = 102 THEN clear_png ELSE NoPayload)

C1_Witness ==
    /\ command = "play-select" /\ Suffix(filename) = EXT_H264
    /\ Completed /\ Ops = PLAY_SELECT_H264

VIDEO_PRELUDE == <<10, 111, 112, 13, 14, 41, 102, 15>>

\* C2: send-video without --loop writes 10, then the prelude 111, 112, 13,
\* 14 (byte 8 = 32), 41, 102 (the built-in PNG), 15 (byte 8 = 25); after it
\* only 121 chunks and 122 probes, no 121 before the prelude is complete or
\* after a 123; and when extraction succeeded and nothing was raised, one
\* 123, the last transfer.
C2_SendVideoOrder ==
    (command = "send-video" /\ ~loop) =>
        LET n == Len(VIDEO_PRELUDE)
        IN  /\ IsPrefix(Ops, VIDEO_PRELUDE) \/ IsPrefix(VIDEO_PRELUDE, Ops)
            /\ Len(log) >= 5 => log[5].pkt[9] = 32
            /\ Len(log) >= 7 => log[7].payload = clear_png
            /\ Len(log) >= 8 => log[8].pkt[9] = 25
            /\ \A i \in (n + 1)..Len(log) :
                  /\ Ops[i] \in {121, 122, 123}
                  /\ Ops[i] = 123 => i = Len(log)
            /\ (Completed /\ result = "true") =>
                  /\ Len(log) > n
                  /\ Ops[Len(log)] = 123
                  /\ Len(Entries(123)) = 1

C2_Witness ==
    /\ command = "send-video" /\ ~loop /\ Completed /\ result = "true"
    /\ Len(Entries(121)) = 2 /\ Len(Entries(122)) >= 1

\* C3: a single user interrupt that arrives inside the streaming loop of
\* send_video (--loop or not, in the backpressure probe or not) is followed
\* by no further 121 chunk and by one 123, and send_video returns True.
C3_InterruptTeardown ==
    (intAt >= 0 /\ interrupts = 1) =>
        LET after == SubSeq(Ops, intAt + 1, Len(log))
        IN  \/ pc = "sv_teardown" /\ after = << >>
            \/ pc = "exit" /\ after = <<123>> /\ result = "true"

C3_Witness ==
    /\ intPc = "sv_delay" /\ interrupts = 1 /\ loop
    /\ pc = "exit" /\ result = "true" /\ Ops[Len(log)] = 123

\* C4: once send_video has entered its streaming loop, opcode 123 is written
\* before it returns, however the loop ends: success, the end of the
\* stream, an interrupt, or a failure raised inside the loop.
C4_TeardownUnconditional ==
    (command = "send-video" /\ inLoop /\ pc = "exit" /\ result # "none") =>
        Len(Entries(123)) >= 1

\* C5: an upload of a file of N bytes whose transfers all get a non-empty
\* reply writes one 38 and then ceil(N / 1 048 576) chunks 39; byte 16 of
\* the header is 1 on the last chunk and 0 on every chunk before it.
C5_UploadChunks ==
    command = "upload" =>
        LET chunks == CeilDiv(fileSize, CHUNK_SIZE)
            full   == <<10, 100, 38>> \o [i \in 1..chunks |-> 39]
            sent   == Entries(39)
        IN  /\ IsPrefix(Ops, full)
            /\ (Completed /\ result = "true") => Ops = full
            /\ \A i \in 1..Len(sent) : sent[i].pkt[17] = (IF i = chunks THEN 1 ELSE 0)

C5_Witness ==
    /\ command = "upload" /\ Completed /\ result = "true"
    /\ fileSize = 2 * CHUNK_SIZE /\ Len(Entries(39)) = 2

RECURSIVE SumValid(_)
SumValid(es) ==
    IF es = << >> THEN 0 ELSE FromBE32(Slice(Head(es).pkt, 12, 16)) + SumValid(Tail(es))

\* C6: in every opcode-39 header bytes 8..12 are the big-endian 1 048 576
\* and bytes 12..16 the big-endian count of the file's bytes in the chunk,
\* between 1 and 1 048 576; the chunks carry the file in order, so that the
\* counts of a finished upload add up to the length of the file.
C6_WriteChunkHeader ==
    LET sent == Entries(39)
    IN  /\ \A i \in 1..Len(sent) :
              LET data == sent[i].payload[1]
              IN  /\ FromBE32(Slice(sent[i].pkt, 8, 12)) = 1048576
                  /\ FromBE32(Slice(sent[i].pkt, 12, 16)) = data.n
                  /\ data.kind = "file"
                  /\ data.n >= 1 /\ data.n <= 1048576
                  /\ data.off = SumValid(SubSeq(sent, 1, i - 1))
        /\ (command = "upload" /\ Completed /\ result = "true") => SumValid(sent) = fileSize

C6_Witness ==
    /\ command = "upload" /\ Completed /\ result = "true"
    /\ fileSize = CHUNK_SIZE + 1 /\ Len(Entries(39)) = 2

\* C7: every opcode-39 transfer is the 512-byte envelope followed by a
\* buffer of exactly 1 048 576 bytes.
C7_WriteChunkLength ==
    \A i \in 1..Len(log) :
        Ops[i] = 39 =>
            /\ Len(envelope_layout(log[i].pkt)) = 512
            /\ PayloadLen(log[i].payload) = 1048576

\* C8: every bulk write starts with exactly one 512-byte envelope; a payload
\* follows it only for the opcodes 102, 121 and 39.
C8_OneEnvelopePerWrite ==
    \A i \in 1..Len(log) :
        /\ Len(envelope_layout(log[i].pkt)) = 512
        /\ log[i].payload # NoPayload => Ops[i] \in {102, 121, 39}

\* the packet is a bare header
HeaderOnly == pc \in {"header", "header_sent", "header_received"}

\* C9: for every command id, encrypt_command_packet(build_command_packet_header(op))
\* is exactly 512 bytes: bytes 0..504 are the 504 bytes of DES-CBC ciphertext
\* of the zero-padded header, bytes 504..510 are zero, and bytes 510 and 511
\* are the trailer 0xA1, 0x1A.
C9_EnvelopeLayout ==
    pc = "header_sent" =>
        /\ Len(envelope) = 512
        /\ Len(ciphertext) = 504
        /\ SubSeq(envelope, 1, 504) = ciphertext
        /\ \A i \in 1..504 : ciphertext[i] \in 0..255
        /\ \A i \in 505..510 : envelope[i] = 0
        /\ envelope[511] = 161
        /\ envelope[512] = 26

C9_Witness ==
    /\ pc = "header_sent"
    /\ command_id = 14
    /\ clock = 16909060
    /\ brightness = 80
    /\ Len(envelope) = 512
    /\ SubSeq(envelope, 1, 8) = <<217, 40, 67, 81, 229, 108, 239, 127>>
    /\ SubSeq(envelope, 497, 512) = <<54, 80, 99, 178, 188, 149, 136, 252, 0, 0, 0, 0, 0, 0, 161, 26>>

\* C10: build_command_packet_header(op) is 500 bytes: byte 0 is op, byte 1
\* is 0, bytes 2 and 3 are 0x1A 0x6D, bytes 4..8 are the milliseconds since
\* local midnight as a little-endian u32, and every byte from 8 on is zero;
\* the brightness packet differs from it in byte 8 only, which holds the
\* value, and for command 14 at timestamp 0x01020304 with value 80 it
\* starts 0E 00 1A 6D 04 03 02 01 with byte 8 = 0x50.
C10_HeaderLayout ==
    /\ pc # "codec" =>
          /\ Len(cmd_packet) = 500
          /\ cmd_packet[1] = command_id
          /\ cmd_packet[2] = 0
          /\ cmd_packet[3] = 26
          /\ cmd_packet[4] = 109
          /\ \A i \in 5..8 : cmd_packet[i] \in 0..255
          /\ FromLE32(Slice(cmd_packet, 4, 8)) = clock
          /\ cmd_packet[9] = (IF HeaderOnly THEN 0 ELSE brightness)
          /\ \A i \in 10..500 : cmd_packet[i] = 0
    /\ (pc \in {"brightness", "brightness_sent"} /\ clock = 16909060 /\ brightness = 80) =>
          /\ SubSeq(cmd_packet, 1, 8) = <<14, 0, 26, 109, 4, 3, 2, 1>>
          /\ cmd_packet[9] = 80

C10_Witness ==
    /\ pc = "brightness"
    /\ clock = 16909060
    /\ brightness = 80
    /\ SubSeq(cmd_packet, 1, 9) = <<14, 0, 26, 109, 4, 3, 2, 1, 80>>

----------------------------------------------------------------------------

PATH_OPCODES == {38, 42, 98, 99, 110, 113}
PAYLOAD_OPCODES == {102, 121}

\* the path a path-carrying transfer of this run names
SentPath(op) ==
    CASE op = 38 -> upload_device_path(filename)
      [] op = 99 -> storage_path(storageType)
      [] OTHER   -> device_path(filename)

\* C11: in every transfer that carries variable-length data, header bytes
\* 8..12 hold the big-endian u32 of the length sent: for opcodes 38, 42, 98,
\* 99, 110 and 113 the length of the path, with bytes 12..16 zero and the
\* whole path from byte 16 on; for opcodes 102 and 121 the number of
\* payload bytes that follow the envelope in the same write.
C11_LengthField ==
    \A k \in 1..Len(log) :
        LET pkt    == log[k].pkt
            length == FromBE32(Slice(pkt, 8, 12))
        IN  /\ pkt[1] \in PATH_OPCODES =>
                  /\ length = Len(SentPath(pkt[1]))
                  /\ Slice(pkt, 12, 16) = <<0, 0, 0, 0>>
                  /\ Slice(pkt, 16, 16 + length) = SentPath(pkt[1])
                  /\ log[k].payload = NoPayload
            /\ pkt[1] \in PAYLOAD_OPCODES =>
                  /\ length = PayloadLen(log[k].payload)
                  /\ length > 0

\* a play-select of a .png name of 504 characters has run to its end: a
\* 102 with the built-in PNG and a 113 whose path of 530 bytes grew the packet
C11_Witness ==
    /\ Completed /\ Ops = PLAY_SELECT_PNG
    /\ Len(filename) = 504
    /\ FromBE32(Slice(log[8].pkt, 8, 12)) = 530
    /\ FromBE32(Slice(log[7].pkt, 8, 12)) = CLEAR_PNG_SIZE

----------------------------------------------------------------------------

\* C12: every CLI action other than sync writes opcode 10 as its first
\* transfer, before every other transfer of the action, and has written it
\* when it ends uninterrupted; the sync action writes one transfer, opcode
\* 10, and nothing else.
C12_SyncFirst ==
    /\ command # "sync" =>
          /\ Len(log) >= 1 => Ops[1] = 10
          /\ Completed => Len(log) >= 1
    /\ command = "sync" =>
          /\ IsPrefix(Ops, <<10>>)
          /\ Completed => Ops = <<10>>

\* a restart has run to its end: 10, then 11
C12_Witness == command = "restart" /\ Completed /\ Ops = <<10, 11>>

----------------------------------------------------------------------------

\* the extension of the filename is outside the set the called function allows
Rejected ==
    IF command = "upload_file" THEN Suffix(filename) \notin {EXT_PNG, EXT_MP4}
    ELSE Suffix(filename) \notin {EXT_PNG, EXT_H264}

\* C13: upload_file, delete_file, play_file, play_file2 and play_file3,
\* called with a filename whose extension is outside the allowed set
\* (.png/.mp4 for upload, .png/.h264 for delete and play), write no transfer
\* and return false.
C13_UnsupportedExtension ==
    (command \in Calls /\ Rejected) =>
        /\ log = << >>
        /\ pc = "exit" => result = "false"

\* play_file3 has returned false for a.mp4 without a transfer
C13_Witness ==
    /\ command = "play_file3" /\ filename = Name(1, EXT_MP4)
    /\ pc = "exit" /\ result = "false" /\ log = << >>

----------------------------------------------------------------------------

\* C14: the CLI actions upload, delete and play-select, given a filename
\* whose extension is outside the allowed set (.png/.mp4 for upload,
\* .png/.h264 for delete and play-select), write no transfer at all.
C14_NoTransferOnBadExtension ==
    \/ command = "upload" /\ Suffix(filename) \notin {EXT_PNG, EXT_MP4}
    \/ command \in {"delete", "play-select"} /\ Suffix(filename) \notin {EXT_PNG, EXT_H264}
    => log = << >>

----------------------------------------------------------------------------

\* send_image has returned: the image was opened and nothing interrupted
\* the run
ImageSent == command = "send-image" /\ Completed /\ fileExists

\* L is ceil(total_size / max_chunk_bytes)
IsLayerCount(L) == (L - 1) * max_chunk_bytes < total_size /\ total_size <= L * max_chunk_bytes

\* C15: send_image on an image whose full PNG encoding is T bytes writes,
\* with the chunk budget M, exactly L = ceil(T / M) opcode-102 transfers,
\* one per layer: never more than L, L of them when it has returned, and
\* transfer k carries the encoding of layer k - 1.
C15_LayerCount ==
    (command = "send-image" /\ total_size > 0) =>
        \A L \in 1..(MaxLayers + 1) :
            IsLayerCount(L) =>
                /\ Len(Entries(102)) <= L
                /\ ImageSent => Len(Entries(102)) = L
                /\ Len(layers) = Len(Entries(102))
                /\ \A k \in 1..Len(layers) :
                      Entries(102)[k].payload = << Seg("layer", k - 1, layers[k].encoded) >>

\* an encoding of exactly two budgets was sent in two layers
C15_Witness ==
    /\ ImageSent /\ total_size = 2 * max_chunk_bytes
    /\ Ops = <<10, 102, 102>>

\* C16: with h = H div L the layers are emitted for i = 0..L-1 in
\* increasing order; layer i is a canvas of width W and height H - i*h on
\* which the source rows [max(0, H - (i+1)*h), H - i*h) are pasted, over
\* the full width, at the y position they have in the source, the band
\* lying inside the canvas.
C16_LayerGeometry ==
    (command = "send-image" /\ total_size > 0) =>
        LET W == img[1]
            H == img[2]
            L == CeilDiv(total_size, max_chunk_bytes)
            h == H \div L
        IN  \A k \in 1..Len(layers) :
                LET i   == k - 1
                    top == IF H - (i + 1) * h > 0 THEN H - (i + 1) * h ELSE 0
                    l   == layers[k].layer
                IN  /\ l.canvas = <<W, H - i * h>>
                    /\ l.box = <<0, top, W, H - i * h>>
                    /\ l.at = <<0, top>>
                    /\ 0 <= top /\ top <= H - i * h /\ H - i * h <= l.canvas[2]

\* H = 1920 and L = 3: height 1920 showing rows [1280, 1920), height 1280
\* showing [640, 1280), height 640 showing [0, 640)
C16_Witness ==
    /\ ImageSent /\ img = <<480, 1920>> /\ Len(layers) = 3
    /\ layers[1].layer = [box |-> <<0, 1280, 480, 1920>>, canvas |-> <<480, 1920>>, at |-> <<0, 1280>>]
    /\ layers[2].layer = [box |-> <<0, 640, 480, 1280>>, canvas |-> <<480, 1280>>, at |-> <<0, 640>>]
    /\ layers[3].layer = [box |-> <<0, 0, 480, 640>>, canvas |-> <<480, 640>>, at |-> <<0, 0>>]

\* C17 as stated: send_image returns success if and only if every one of
\* the L layer transfers produced a non-null reply.
C17_SuccessIffNonNull ==
    ImageSent => (result = "true" <=> \A k \in 1..Len(layers) : layers[k].response # None)

\* C17: send_image returns success if and only if every one of the L layer
\* transfers produced a reply that is neither null nor empty.
C17_SuccessIffNonEmpty ==
    ImageSent =>
        /\ result \in {"true", "false"}
        /\ result = "true" <=>
              \A k \in 1..Len(layers) :
                  layers[k].response # None /\ layers[k].response.len > 0

\* three layers were sent, the second got an empty reply: false is returned
C17_Witness ==
    /\ ImageSent /\ Len(layers) = 3 /\ result = "false"
    /\ layers[1].response.len = REPLY_MAX
    /\ layers[2].response.len = 0
    /\ layers[3].response.len = REPLY_MAX

\* C18: no opcode-102 transfer written by send_image carries a PNG payload
\* larger than max_chunk_bytes.
C18_LayerWithinCap ==
    command = "send-image" =>
        \A k \in 1..Len(log) :
            log[k].pkt[1] = 102 => PayloadLen(log[k].payload) <= max_chunk_bytes

----------------------------------------------------------------------------

\* the opcode of the transfer written last
LastOp(l) == l[Len(l)].pkt[1]

\* this step writes one transfer, of opcode op
Writes(op) == Len(log') = Len(log) + 1 /\ LastOp(log') = op

\* C19: in the streaming loop of send_video, the step that writes an
\* opcode-121 chunk calls delay(dev, 2) if the reply is null, shorter than 9
\* bytes or has byte 8 <= 3, and reads the next chunk without a delay if
\* byte 8 > 3; delay is entered from the loop by such a step only, once for
\* the chunk, and once it is entered the next transfer is its opcode-122
\* probe, so the delay comes before the next chunk.
C19_DelayAfterChunk ==
    [][ /\ Writes(121) =>
              IF response' = None \/ response'.len < 9 \/ response'.b8 <= 3
                THEN pc' = "sv_delay"
                ELSE pc' = "sv_read"
        /\ (pc # "sv_delay" /\ pc' = "sv_delay") => Writes(121)
        /\ (pc = "sv_delay" /\ log' # log) => Writes(122)
      ]_vars

\* the second chunk of a file was answered with byte 8 = 3, after the
\* delay of the first chunk; delay(dev, 2) is about to run
C19_Witness ==
    /\ pc = "sv_delay" /\ LastOp(log) = 121
    /\ response = [len |-> REPLY_MAX, b8 |-> 3]
    /\ Len(Entries(121)) = 2 /\ Len(Entries(122)) = 1

\* C20: delay(dev, 2) writes an opcode-122 probe before anything else; the
\* step that writes a probe is followed by a further probe exactly when the
\* reply has a byte 8 strictly greater than 2, and delay returns to the
\* loop after a probe whose reply is missing or has byte 8 <= 2; with a
\* device that gives such a reply at some probe, delay terminates.
C20_DelayProbes ==
    /\ [][ /\ Writes(122) =>
                   /\ pc = "sv_delay"
                   /\ pc' = "sv_delay" <=>
                         (response' # None /\ response'.len >= 9 /\ response'.b8 > 2)
                   /\ (response' = None \/ (response'.len >= 9 /\ response'.b8 <= 2)) =>
                         pc' = "sv_read"
           /\ (pc = "sv_delay" /\ log' # log) => Writes(122)
       ]_vars
    /\ (pc = "sv_delay") ~> (pc # "sv_delay")

\* a first probe was answered with byte 8 = 3, the second with byte 8 = 2:
\* delay has returned to the loop
C20_Witness ==
    /\ pc = "sv_read" /\ Len(log) >= 3
    /\ LastOp(log) = 122 /\ LastOp(SubSeq(log, 1, Len(log) - 1)) = 122
    /\ LastOp(SubSeq(log, 1, Len(log) - 2)) = 121
    /\ response = [len |-> REPLY_MAX, b8 |-> 2]

----------------------------------------------------------------------------
(* The transaction of write_to_device *)

\* the reads of the drain that directly precede position i of the trace
RECURSIVE DrainBefore(_)
DrainBefore(i) ==
    IF i > 1 /\ usb[i - 1].op = "flush" THEN 1 + DrainBefore(i - 1) ELSE 0

\* the drain is over at position i: its read timed out or failed, or it
\* was the last of max_attempts reads
DrainEnded(i) ==
    usb[i].op = "flush" /\ (usb[i].status # "ok" \/ DrainBefore(i + 1) = max_attempts)

RECURSIVE WriteAt(_, _)
WriteAt(k, i) ==
    IF usb[i].op = "write"
      THEN (IF k = 1 THEN i ELSE WriteAt(k - 1, i + 1))
      ELSE WriteAt(k, i + 1)

\* call k had a read of its drain that timed out or failed
DrainFailed(k) ==
    \E j \in WriteAt(k, 1) + 2..Len(usb) :
        /\ usb[j].op = "flush" /\ usb[j].status # "ok"
        /\ \A m \in WriteAt(k, 1) + 1..j : usb[m].op # "write"

\* C22: a call of write_to_device returns None when its bulk write failed
\* or its primary read failed; otherwise it returns the bytes of the
\* primary read, whatever the reads of the drain did.
C22_NullOnFailure ==
    \A k \in 1..Len(returned) :
        LET w == WriteAt(k, 1)
        IN  IF usb[w].status # "ok" THEN returned[k] = None
            ELSE /\ usb[w + 1].op = "read"
                 /\ IF usb[w + 1].status # "ok" THEN returned[k] = None
                    ELSE returned[k] = usb[w + 1].data /\ returned[k] # None

\* one call returned None after a failed primary read, another the reply
\* of its primary read after an error in the drain
C22_Witness ==
    \E k, m \in 1..Len(returned) :
        /\ usb[WriteAt(k, 1)].status = "ok" /\ returned[k] = None
        /\ DrainFailed(m) /\ returned[m] # None
        /\ \E j \in 1..Len(usb) : usb[j].op = "flush" /\ usb[j].status = "error"

----------------------------------------------------------------------------
(* Exit codes *)

\* C23: the process exits with 1 exactly when find_usb_device did not
\* find the device, and then nothing has been written, or another
\* exception that is not a KeyboardInterrupt reached main's handlers; it
\* exits with 0 otherwise, after a KeyboardInterrupt and after an action
\* that returned False as well.
C23_ExitCodes ==
    /\ pc # "exit" => exitCode = -1 /\ raised = ""
    /\ pc = "exit" =>
          /\ exitCode \in {0, 1}
          /\ exitCode = 1 <=> raised \notin {"", "KeyboardInterrupt"}
          /\ raised = "ValueError" <=> ~devPresent /\ interrupts = 0
          /\ raised = "ValueError" => log = << >>
          /\ raised = "KeyboardInterrupt" => exitCode = 0
          /\ raised = "" /\ result = "false" => exitCode = 0

\* a run that ended with 1 on an exception after transfers were written
C23_Witness ==
    /\ pc = "exit"
    /\ exitCode = 1
    /\ raised = "CalledProcessError"
    /\ log # << >>

----------------------------------------------------------------------------
(* The storage report *)

\* the little-endian u32 at offset off of the reply
CounterAt(off) ==
    storage.bytes[off + 1] + 256 * storage.bytes[off + 2] + 65536 * storage.bytes[off + 3]
        + 16777216 * storage.bytes[off + 4]

\* C24: for a reply of at least 20 bytes, each of the three sizes reported
\* is that of the little-endian u32 at offset 8, 12, 16 of the reply, in MB
\* when the value is below 1 048 576 and in GB when it is 1 048 576 or
\* more; the counters 1024, 512 and 256 are reported as 1.00 MB, 0.50 MB
\* and 0.25 MB.
C24_StorageUnits ==
    pc = "info_done" /\ ~storage.none /\ Len(storage.bytes) >= MIN_INFO_REPLY =>
        /\ Len(report) = 3
        /\ \A i \in 1..3 :
              LET v == CounterAt(4 + 4 * i)
              IN  /\ report[i].unit = (IF v < GB_THRESHOLD THEN "MB" ELSE "GB")
                  /\ v = 1024 => report[i].hundredths = 100
                  /\ v = 512 => report[i].hundredths = 50
                  /\ v = 256 => report[i].hundredths = 25

----------------------------------------------------------------------------
(* The listing *)

\* 'file:' occurs at index i of s
TokenAt(s, i) ==
    i + Len(FILE_TOKEN) - 1 <= Len(s) /\ SubSeq(s, i, i + Len(FILE_TOKEN) - 1) = FILE_TOKEN

\* s after the last 'file:' in it
AfterLastToken(s) ==
    LET p == CHOOSE i \in 1..Len(s) : TokenAt(s, i) /\ \A j \in i + 1..Len(s) : ~TokenAt(s, j)
    IN  SubSeq(s, p + Len(FILE_TOKEN), Len(s))

\* the pieces of s between slashes, the empty ones left out, in order
RECURSIVE Runs(_, _)
Runs(s, cur) ==
    IF s = << >> THEN (IF cur = << >> THEN << >> ELSE <<cur>>)
    ELSE IF s[1] = SLASH THEN (IF cur = << >> THEN << >> ELSE <<cur>>) \o Runs(Tail(s), << >>)
    ELSE Runs(Tail(s), Append(cur, s[1]))

Decoded == decode_ignore(receive_buffer, 1)
HasToken == \E i \in 1..Len(Decoded) : TokenAt(Decoded, i)
Blank(s) == \A i \in 1..Len(s) : isspace(s[i])

\* C25 as stated: the parser yields, in order, the non-empty names between
\* the slashes of what follows the last 'file:' of the decoded reply; a, b,
\* c for 'file:a/b/c/'; none when 'file:' does not occur.
C25_NonEmptyNames ==
    pc = "parsed" =>
        /\ HasToken => names = Runs(AfterLastToken(Decoded), << >>)
        /\ ~HasToken => names = << >>
        /\ receive_buffer = LISTING_ABC => names = <<<<97>>, <<98>>, <<99>>>>

\* C25, corrected: the parser yields, in order, the names between the
\* slashes of what follows the last 'file:' of the decoded reply that are
\* not blank, that is, not empty once white space is stripped; a, b, c for
\* 'file:a/b/c/'; none when 'file:' does not occur.
C25_NonBlankNames ==
    pc = "parsed" =>
        /\ HasToken =>
              LET NotBlank(f) == ~Blank(f)
              IN  names = SelectSeq(Runs(AfterLastToken(Decoded), << >>), NotBlank)
        /\ ~HasToken => names = << >>
        /\ receive_buffer = LISTING_ABC => names = <<<<97>>, <<98>>, <<99>>>>

\* a listing with two tokens, the second formed by dropping a byte that is
\* not UTF-8, and a name after it
C25_Witness ==
    /\ pc = "parsed"
    /\ names = <<<<98, 99>>>>
    /\ Len(split(Decoded, FILE_TOKEN)) = 3
    /\ ~TokenAt(receive_buffer, 1) /\ ~TokenAt(receive_buffer, 2)

----------------------------------------------------------------------------
(* Upload, then play-select *)

\* what play-select writes for a stored name
Ritual(name) == IF Suffix(name) = EXT_H264 THEN PLAY_SELECT_H264 ELSE PLAY_SELECT_PNG

\* the two runs write `uploaded`, then the ritual of play-select, and
\* nothing else
TwoRuns(uploaded) ==
    /\ command = "upload" =>
          /\ IsPrefix(Ops, uploaded)
          /\ Completed /\ result = "true" => Ops = uploaded
    /\ command = "play-select" =>
          /\ IsPrefix(Ops, uploaded \o Ritual(filename))
          /\ Completed => Ops = uploaded \o Ritual(filename)

----------------------------------------------------------------------------
(* Failure of the MP4 extraction *)

\* the step in which extract_h264_from_mp4 raises: upload_file calls it
\* for an existing MP4, send_video for every path
ExtractionFails ==
    /\ pc \in {"sv_extract", "up_check"}
    /\ pc = "up_check" => fileExists /\ Suffix(filename) = EXT_MP4
    /\ pc' = "exit"
    /\ interrupts' = interrupts

\* C27: when extract_h264_from_mp4 fails in send-video or in upload, the
\* error reaches main's handlers, and no transfer is written after the
\* failure: none in the failing step, none once the run is over.
C27_ExtractionErrorPropagates ==
    [][/\ ExtractionFails =>
              /\ raised' \notin {"", "KeyboardInterrupt"}
              /\ exitCode' = 1
              /\ log' = log
       /\ pc = "exit" => log' = log]_vars

----------------------------------------------------------------------------
(* The round trip of the cipher *)

\* C28: decrypting bytes 0..504 of the envelope of a 500-byte header under
\* DES-CBC with key = IV = slv3tuzx gives 504 bytes, the first 500 of them
\* the header and the last 4 zero.
C28_DecryptRoundTrip ==
    pc \in {"header_received", "brightness_received"} =>
        /\ Len(cmd_packet) = PACKET_SIZE
        /\ Len(plaintext) = PACKET_SIZE + 4
        /\ SubSeq(plaintext, 1, PACKET_SIZE) = cmd_packet
        /\ \A i \in PACKET_SIZE + 1..PACKET_SIZE + 4 : plaintext[i] = 0

\* the brightness packet of the worked example has come back
C28_Witness ==
    /\ pc = "brightness_received"
    /\ clock = 16909060
    /\ brightness = 80
    /\ SubSeq(plaintext, 1, 9) = <<14, 0, 26, 109, 4, 3, 2, 1, 80>>
    /\ SubSeq(envelope, 1, 8) = <<217, 40, 67, 81, 229, 108, 239, 127>>

----------------------------------------------------------------------------
(* The chunks of a video; short replies to the probe *)

\* the stream was ended by the IndexError of delay
ProbeRaised == pc = "exit" /\ log # << >> /\ LastOp(log) = 122 /\ ProbeRaises(response)

\* the streaming loop is over, and neither a KeyboardInterrupt nor an
\* error of reading the local file ended it
StreamOver ==
    /\ inLoop /\ interrupts = 0
    /\ pc = "sv_teardown" \/ (pc = "exit" /\ (result = "true" \/ ProbeRaised))

\* C29: without --loop, send_video writes ceil(N / 202 752) opcode-121
\* transfers for a file of N bytes, whatever the replies are: the chunks
\* written so far are consecutive pieces of the file from its start, none
\* empty, none longer than 202 752 bytes, each with its length in the
\* header, and once the loop is over they are the whole file.
C29_AllChunksWritten ==
    (command = "send-video" /\ ~loop) =>
        LET sent == Entries(121)
        IN  /\ \A i \in 1..Len(sent) :
                  LET seg == sent[i].payload[1]
                  IN  /\ Len(sent[i].payload) = 1
                      /\ seg.kind = "file"
                      /\ seg.off = (i - 1) * VIDEO_CHUNK
                      /\ seg.n = Min(VIDEO_CHUNK, fileSize - seg.off)
                      /\ seg.n > 0
                      /\ Slice(sent[i].pkt, 8, 12) = BE32(seg.n)
            /\ StreamOver => Len(sent) = CeilDiv(fileSize, VIDEO_CHUNK)

\* C30: a probe whose reply is missing, or present but shorter than 9
\* bytes, ends delay normally: delay neither probes again nor raises, the
\* loop goes on with the next read and send_video does not fail.
C30_ShortProbeReply ==
    [][Writes(122) /\ (response' = None \/ response'.len < 9) =>
            /\ pc' = "sv_read"
            /\ result' = result
            /\ fileOpen' = fileOpen]_vars

----------------------------------------------------------------------------
(* The buffer of an opcode-39 transfer *)

\* the segments of payload p that hold bytes of the file
FileSegs(p) == SelectSeq(p, LAMBDA g : g.kind = "file")

\* the position in payload p of its k-th segment
RECURSIVE SegStart(_, _)
SegStart(p, k) == IF k = 1 THEN 0 ELSE SegStart(p, k - 1) + p[k - 1].n

\* the buffer of transfer e holds the bytes of the file that its header
\* counts as valid, in one piece that starts at position `at` of the
\* buffer, and zero bytes everywhere else
DataAt(e, at, fileOff) ==
    LET valid == FromBE32(Slice(e.pkt, 12, 16))
    IN  /\ \A k \in 1..Len(e.payload) : e.payload[k].kind \in {"file", "zero"}
        /\ Len(FileSegs(e.payload)) = 1
        /\ FileSegs(e.payload)[1] = Seg("file", fileOff, valid)
        /\ \E k \in 1..Len(e.payload) :
              e.payload[k].kind = "file" /\ SegStart(e.payload, k) = at

\* C31 as stated: in every opcode-39 transfer the data of the chunk is in
\* the last bytes-valid bytes of the buffer, and every other byte of the
\* buffer is zero.
C31_DataLast ==
    \A i \in 1..Len(Entries(39)) :
        LET e == Entries(39)[i]
        IN  DataAt(e, PayloadLen(e.payload) - FromBE32(Slice(e.pkt, 12, 16)),
                   (i - 1) * CHUNK_SIZE)

\* C31, corrected: in every opcode-39 transfer the data of the chunk is in
\* the first bytes-valid bytes of the buffer, and every other byte of the
\* buffer is zero.
C31_DataFirst ==
    \A i \in 1..Len(Entries(39)) :
        DataAt(Entries(39)[i], 0, (i - 1) * CHUNK_SIZE)

\* a full chunk and a last chunk of one byte have been written
C31_Witness ==
    /\ Len(Entries(39)) = 2
    /\ fileSize = CHUNK_SIZE + 1
    /\ Entries(39)[2].payload[1] = Seg("file", CHUNK_SIZE, 1)
    /\ Entries(39)[2].payload[2].kind = "zero"

----------------------------------------------------------------------------
(* Upload stops at the first transfer without a reply *)

\* C32: when the opcode-38 open or an opcode-39 chunk gets no reply (None,
\* or a reply of no bytes), upload_file returns False at once: the run
\* ends with that transfer as the last one written, so no chunk follows a
\* failed open and no later chunk a failed chunk.
C32_StopAtNoReply ==
    /\ [][(Writes(38) \/ Writes(39)) /\ (response' = None \/ response'.len = 0) =>
              /\ pc' = "exit"
              /\ result' = "false"
              /\ fileOpen' = 0]_vars
    /\ [][pc = "exit" => log' = log]_vars

\* the first of two chunks got no reply, the second was not written
C32_Witness ==
    /\ command = "upload" /\ pc = "exit" /\ result = "false" /\ interrupts = 0
    /\ response = None
    /\ Ops = <<10, 100, 38, 39>>
    /\ fileSize = 2 * CHUNK_SIZE

----------------------------------------------------------------------------
(* The accumulation loop of send_list_storage_command *)

\* C33: send_list_storage_command writes at most max_tries (20) opcode-99
\* transfers; the turn whose reply is missing or empty, or would not fit
\* in what is left of the accumulator, is the last one and adds nothing;
\* the accumulator never holds more than RECEIVE_BUFFER (10 240) bytes.
C33_ListingBounded ==
    /\ [](Len(Entries(99)) <= max_tries /\ receive_offset <= RECEIVE_BUFFER)
    /\ [][Writes(99) =>
            /\ (~Truthy(response') \/ receive_offset + response'.len > RECEIVE_BUFFER
                    \/ Len(Entries(99)) + 1 = max_tries)
                 => pc' = "exit"
            /\ (~Truthy(response') \/ receive_offset + response'.len > RECEIVE_BUFFER)
                 => receive_offset' = receive_offset
            /\ pc' # "exit" => receive_offset' = receive_offset + response'.len]_vars

\* twenty full replies fill the accumulator exactly
C33_Witness ==
    /\ command = "list-storage" /\ pc = "exit"
    /\ Len(Entries(99)) = max_tries
    /\ receive_offset = RECEIVE_BUFFER

----------------------------------------------------------------------------
(* The streaming file handle *)

\* C34: the file opened for streaming (the H.264 file of send_video, the
\* local file of the upload writer) is open only while its chunks are read
\* and written: it is closed at the end of the stream, at an interrupt and
\* at an error, in loop mode it is closed when the next pass opens it
\* again, and never more than one handle is open.
C34_OneHandle ==
    /\ fileOpen \in {0, 1}
    /\ fileOpen = 1 => pc \in {"sv_read", "sv_delay", "up_write"}
    /\ pc \in {"sv_open", "sv_teardown", "exit"} => fileOpen = 0

\* loop mode: the second pass reads the file it has opened again
C34_Witness ==
    /\ command = "send-video" /\ loop /\ passes = 1
    /\ pc = "sv_read" /\ offset = VIDEO_CHUNK
    /\ fileOpen = 1

----------------------------------------------------------------------------
(* Loop mode of send_video *)

\* the chunk read finds the end of the file and nothing interrupts or
\* fails
PassEnds ==
    /\ pc = "sv_read" /\ offset = fileSize
    /\ interrupts' = interrupts /\ result' # "false"

\* C35: with loop = true, a pass that reaches the end of the H.264 file is
\* followed by the reopening of the file and the next transfer of the
\* stream is the chunk at offset 0; between two chunks only chunks and
\* opcode-122 probes are written (no prelude command, no 123); and once
\* the streaming has begun, as long as there is no interrupt and no error
\* the stream is not over and no 123 is written.
C35_LoopRestarts ==
    /\ []((command = "send-video" /\ loop) =>
            /\ \A i, j \in 1..Len(log) :
                  (i < j /\ Ops[i] = 121 /\ Ops[j] = 121) =>
                      \A k \in i..j : Ops[k] \in {121, 122}
            /\ (inLoop /\ interrupts = 0 /\ result # "false") =>
                  /\ pc \notin {"sv_teardown", "exit"}
                  /\ Len(Entries(123)) = 0)
    /\ [][(command = "send-video" /\ loop) =>
            /\ PassEnds => (pc' = "sv_open" /\ log' = log /\ passes' = passes + 1)
            /\ (pc = "sv_open" /\ pc' = "sv_read") => (offset' = 0 /\ log' = log)
            /\ (Writes(121) /\ offset = 0) =>
                  log'[Len(log')].payload = << Seg("file", 0, Min(VIDEO_CHUNK, fileSize)) >>]_vars

\* the second pass has written the first chunk again, after the two chunks
\* of the first pass
C35_Witness ==
    /\ command = "send-video" /\ loop /\ interrupts = 0 /\ passes = 1
    /\ fileSize = 2 * VIDEO_CHUNK
    /\ Len(Entries(121)) = 3
    /\ Entries(121)[3].payload = << Seg("file", 0, VIDEO_CHUNK) >>
    /\ \A k \in 1..Len(log) : Ops[k] = 121 => \A m \in k..Len(log) : Ops[m] \in {121, 122}

----------------------------------------------------------------------------
(* The rows the layers of send_image show *)

\* the source rows layer k shows: those of its crop box
Band(k) == layers[k].layer.box[2] .. (layers[k].layer.box[4] - 1)

\* C36: when send_image has returned, the row bands of its layers are
\* pairwise disjoint and every source row 0..H-1 is in one of them, whether
\* the layer count divides H or not.
C36_BandsCoverImage ==
    ImageSent =>
        /\ \A j, k \in 1..Len(layers) : j # k => Band(j) \cap Band(k) = {}
        /\ \A row \in 0..(img[2] - 1) : \E k \in 1..Len(layers) : row \in Band(k)

\* the part of C36 that holds: the bands are pairwise disjoint and cover
\* the rows from H mod L on
C36_BandsCoverFromRemainder ==
    ImageSent =>
        /\ \A j, k \in 1..Len(layers) : j # k => Band(j) \cap Band(k) = {}
        /\ \A row \in (img[2] % Len(layers))..(img[2] - 1) :
              \E k \in 1..Len(layers) : row \in Band(k)
        /\ \A row \in 0..((img[2] % Len(layers)) - 1) :
              \A k \in 1..Len(layers) : row \notin Band(k)

----------------------------------------------------------------------------
(* Path-carrying packets of any path length *)

\* the opcodes whose packet carries a path from byte 16 on
PathOps == {38, 42, 98, 99, 110, 113}

\* the packet is 500 bytes and holds the whole path its length field
\* announces; its envelope is 512 bytes, ciphertext in bytes 0..504 and
\* nowhere else, the trailer in bytes 510 and 511
FramedWhole(pkt) ==
    LET env == envelope_layout(pkt)
    IN  /\ Len(pkt) = PACKET_SIZE
        /\ 16 + FromBE32(Slice(pkt, 8, 12)) <= Len(pkt)
        /\ Len(env) = ENVELOPE_SIZE
        /\ \A k \in 1..Len(env) : env[k] = CT <=> k <= padded_len(PACKET_SIZE)
        /\ env[TRAILER_POS + 1] = TRAILER_0 /\ env[TRAILER_POS + 2] = TRAILER_1

\* C37: every path-carrying command (opcodes 38, 42, 98, 99, 110, 113),
\* whatever the length of the filename, writes a 500-byte packet in a
\* 512-byte envelope with its ciphertext and its trailer intact.
C37_PathPacketsFramedWhole ==
    \A i \in 1..Len(log) : Ops[i] \in PathOps => FramedWhole(log[i].pkt)

\* the part of C37 that holds: a path of at most 484 bytes is framed whole,
\* and a longer one is carried whole too, in a packet of 16 bytes plus the
\* path
C37_ShortPathsFramedWhole ==
    \A i \in 1..Len(log) :
        Ops[i] \in PathOps =>
            LET length == FromBE32(Slice(log[i].pkt, 8, 12))
            IN  IF length <= PACKET_SIZE - 16
                  THEN FramedWhole(log[i].pkt)
                  ELSE Len(log[i].pkt) = 16 + length

----------------------------------------------------------------------------
(* The rituals do not read their replies *)

\* the opcodes play-select writes for a name: they depend on its suffix
\* and on nothing else
PLAY_SELECT_OTHER == <<10, 111, 114, 14, 111, 112, 102>>

RitualOf(name) ==
    IF Suffix(name) = EXT_H264 THEN PLAY_SELECT_H264
    ELSE IF Suffix(name) = EXT_PNG THEN PLAY_SELECT_PNG
    ELSE PLAY_SELECT_OTHER

\* C38: whatever the device replies (a full reply, a short or empty one,
\* none), play-select writes the opcode sequence its filename fixes and
\* send_video the prelude 111, 112, 13, 14, 41, 102, 15 after the sync:
\* with the same arguments, the same device and no interrupt, what is
\* written is at every moment a prefix of that one sequence and the whole
\* of it when the ritual is over, so two runs that differ in the replies
\* alone write the same opcodes.
C38_RepliesDoNotSteer ==
    (devPresent /\ interrupts = 0) =>
        /\ command = "play-select" =>
              /\ IsPrefix(Ops, RitualOf(filename))
              /\ pc = "exit" => Ops = RitualOf(filename)
        /\ command = "send-video" =>
              /\ IsPrefix(Ops, VIDEO_PRELUDE) \/ IsPrefix(VIDEO_PRELUDE, Ops)
              /\ pc \in {"sv_111", "sv_112", "sv_13", "sv_14", "sv_41", "sv_102", "sv_15"}
                    => Len(Ops) < Len(VIDEO_PRELUDE)
              /\ inLoop => IsPrefix(VIDEO_PRELUDE, Ops)

\* the whole ritual was written in a run whose last command got no reply
C38_Witness ==
    /\ command = "play-select" /\ Completed
    /\ Ops = PLAY_SELECT_H264
    /\ response = None /\ result = "false"

====
